---- MODULE Spec2Model ----
(***************************************************************************)
(* VideoCutter: the timestamp normaliser, the scale resolver, the safe     *)
(* file namer and the segment loop of VideoCutter.cut_video and of         *)
(* VideoCutterGUI.cut_video_with_progress, as state machines.              *)
(* Python strings are TLA+ strings; a character is a string of length 1.   *)
(***************************************************************************)
EXTENDS Integers, Sequences, FiniteSets, TLC

VARIABLES
    job,                \* the arguments of the run (engine, input, timestamps, prefix, scale, dir)
    fs,                 \* the filesystem: path -> content tag of every existing file
    dirs,               \* the existing directories
    pc,                 \* the position of the run
    parsed_timestamps,  \* cut_video's local list of boundaries
    scale_args,         \* cut_video's local scale_args
    i,                  \* the loop index (0-based, as in the code)
    base_filename,      \* the candidate name of the segment being built
    output_filename,    \* the name _create_safe_filename returned for it
    cmd,                \* the argument vector built for it
    output_files,       \* the list cut_video returns
    error,              \* the exception that left cut_video, or None
    events,             \* what was printed (CLI) or put on progress_queue (GUI)
    built,              \* history: one record per segment built
    invocations,        \* history: one record per subprocess.run
    probe,              \* history: how the permission probe ended
    arg,                \* the argument of the function under test
    ret,                \* what it returned
    calls,              \* history of the calls of the function under test
    self_input_file,    \* the GUI's input_file StringVar
    self_output_dir,    \* the GUI's output_dir StringVar
    self_timestamps,    \* the GUI's timestamps list
    cut_button,         \* the state of the Cut Video button
    stop_button,        \* the state of the Stop button
    progress,           \* the progress bar
    output_text,        \* the output log: "" while it is empty, "lines" otherwise
    results_tree,       \* the rows of the results tab
    progress_queue,     \* the items on progress_queue, oldest first
    workers,            \* the cutting threads started so far, each with its locals
    emitted,            \* history: the number of items put on progress_queue
    handled             \* history: the numbers of the items check_progress_queue handled

vars == <<job, fs, dirs, pc, parsed_timestamps, scale_args, i, base_filename,
          output_filename, cmd, output_files, error, events, built,
          invocations, probe, arg, ret, calls,
          self_input_file, self_output_dir, self_timestamps, cut_button,
          stop_button, progress, output_text, results_tree, progress_queue, workers, emitted, handled>>

\* The variables of the GUI, which the engine on its own leaves alone.
gui_vars == <<self_input_file, self_output_dir, self_timestamps, cut_button,
              stop_button, progress, output_text, results_tree, progress_queue, workers, emitted, handled>>

\* Python's None.
None == "<None>"

\* No window: the GUI's variables where no VideoCutterGUI was constructed.
GuiUnused ==
    /\ self_input_file = ""
    /\ self_output_dir = ""
    /\ self_timestamps = <<>>
    /\ cut_button = "normal"
    /\ stop_button = "disabled"
    /\ progress = "stopped"
    /\ output_text = ""
    /\ results_tree = <<>>
    /\ progress_queue = <<>>
    /\ workers = <<>>
    /\ emitted = 0
    /\ handled = <<>>

-----------------------------------------------------------------------------
(* Python str primitives *)

Char(s, k) == SubSeq(s, k, k)

\* The characters the model's inputs use, in code point order.
CodePoints == "\t +-./0123456789:=ABCDEFGHIJKLMNOPQRSTUVWXYZ_abcdefghijklmnopqrstuvwxyz"

OrdTable ==
    [c \in {Char(CodePoints, k) : k \in 1..Len(CodePoints)} |->
        CHOOSE k \in 1..Len(CodePoints) : Char(CodePoints, k) = c]

\* ord(c), up to the order
Ord(c) == OrdTable[c]

RECURSIVE StrLess(_, _)
\* a < b on str: code point by code point, a proper prefix is smaller.
StrLess(a, b) ==
    IF b = "" THEN FALSE
    ELSE IF a = "" THEN TRUE
    ELSE IF Char(a, 1) = Char(b, 1) THEN StrLess(Tail(a), Tail(b))
    ELSE Ord(Char(a, 1)) < Ord(Char(b, 1))

IsSpace(c) == c \in {" ", "\t"}

RECURSIVE LStrip(_)
LStrip(s) == IF s # "" /\ IsSpace(Char(s, 1)) THEN LStrip(Tail(s)) ELSE s

RECURSIVE RStrip(_)
RStrip(s) ==
    IF s # "" /\ IsSpace(Char(s, Len(s))) THEN RStrip(SubSeq(s, 1, Len(s) - 1)) ELSE s

\* str.strip()
Strip(s) == RStrip(LStrip(s))

UpperAlpha == "ABCDEFGHIJKLMNOPQRSTUVWXYZ"
LowerAlpha == "abcdefghijklmnopqrstuvwxyz"

LowerTable ==
    [c \in {Char(UpperAlpha, k) : k \in 1..Len(UpperAlpha)} |->
        Char(LowerAlpha, CHOOSE k \in 1..Len(UpperAlpha) : Char(UpperAlpha, k) = c)]

LowerChar(c) == IF c \in DOMAIN LowerTable THEN LowerTable[c] ELSE c

\* Lower that folds no case.
Lower_unfolded(s) == s

RECURSIVE Lower(_)
\* str.lower()
Lower(s) == IF s = "" THEN "" ELSE LowerChar(Char(s, 1)) \o Lower(Tail(s))

RECURSIVE Find(_, _, _)
\* The first position of the character c in s at or after k, 0 when none.
Find(s, c, k) ==
    IF k > Len(s) THEN 0
    ELSE IF Char(s, k) = c THEN k
    ELSE Find(s, c, k + 1)

\* sep in s, for a one-character sep
Contains(s, sep) == Find(s, sep, 1) # 0

RECURSIVE Split(_, _)
\* str.split(sep) for a one-character sep: always at least one part.
Split(s, sep) ==
    LET k == Find(s, sep, 1)
    IN  IF k = 0 THEN <<s>>
        ELSE <<SubSeq(s, 1, k - 1)>> \o Split(SubSeq(s, k + 1, Len(s)), sep)

Digits == "0123456789"

DigitTable ==
    [c \in {Char(Digits, k) : k \in 1..Len(Digits)} |->
        (CHOOSE k \in 1..Len(Digits) : Char(Digits, k) = c) - 1]

IsDigit(c) == c \in DOMAIN DigitTable

DigitVal(c) == DigitTable[c]

\* The digit part of an int literal: digits, single underscores between them.
ValidDigits(s) ==
    /\ s # ""
    /\ IsDigit(Char(s, 1))
    /\ IsDigit(Char(s, Len(s)))
    /\ \A k \in 1..Len(s) : IsDigit(Char(s, k)) \/ Char(s, k) = "_"
    /\ \A k \in 1..(Len(s) - 1) : ~(Char(s, k) = "_" /\ Char(s, k + 1) = "_")

RECURSIVE DigitsVal(_, _)
DigitsVal(s, acc) ==
    IF s = "" THEN acc
    ELSE IF Char(s, 1) = "_" THEN DigitsVal(Tail(s), acc)
    ELSE DigitsVal(Tail(s), 10 * acc + DigitVal(Char(s, 1)))

\* int(s): surrounding whitespace, an optional sign, the digits.
\* ok = FALSE stands for ValueError.
PyInt(s) ==
    LET t == Strip(s)
        signed == t # "" /\ Char(t, 1) \in {"+", "-"}
        body == IF signed THEN Tail(t) ELSE t
    IN  IF ValidDigits(body)
        THEN [ok |-> TRUE,
              val |-> IF signed /\ Char(t, 1) = "-"
                      THEN 0 - DigitsVal(body, 0) ELSE DigitsVal(body, 0)]
        ELSE [ok |-> FALSE, val |-> 0]

\* f"{n:02d}": the decimal digits, zero-padded to width 2 (the sign counts).
Fmt02d(n) == IF 0 <= n /\ n <= 9 THEN "0" \o ToString(n) ELSE ToString(n)

-----------------------------------------------------------------------------
(* VideoCutter.parse_timestamp *)

Returned(v) == [ok |-> TRUE, val |-> v]
\* raise type(msg)
Raised(type, msg) == [ok |-> FALSE, type |-> type, msg |-> msg]

parse_timestamp(timestamp_in) ==
    LET timestamp == Strip(timestamp_in)
        parts == Split(timestamp, ":")
        n(k) == PyInt(parts[k])
        invalid == Raised("ValueError", "Invalid timestamp format: " \o timestamp)
    IN  IF Len(parts) = 1 THEN
            IF n(1).ok THEN Returned("00:00:" \o Fmt02d(n(1).val))
            ELSE invalid
        ELSE IF Len(parts) = 2 THEN
            IF n(1).ok /\ n(2).ok
            THEN Returned("00:" \o Fmt02d(n(1).val) \o ":" \o Fmt02d(n(2).val))
            ELSE invalid
        ELSE IF Len(parts) = 3 THEN
            IF n(1).ok /\ n(2).ok /\ n(3).ok
            THEN Returned(Fmt02d(n(1).val) \o ":" \o Fmt02d(n(2).val)
                          \o ":" \o Fmt02d(n(3).val))
            ELSE invalid
        ELSE invalid

-----------------------------------------------------------------------------
(* VideoCutter._parse_scale_settings *)

\* presets with the audio bitrate of 720p in every entry.
presets_one_audio(name) ==
    CASE name = "720p" -> <<"-vf", "scale=1280:720", "-b:v", "2M", "-b:a", "128k">>
      [] name = "480p" -> <<"-vf", "scale=854:480", "-b:v", "1M", "-b:a", "128k">>
      [] name = "360p" -> <<"-vf", "scale=640:360", "-b:v", "500k", "-b:a", "128k">>
      [] name = "240p" -> <<"-vf", "scale=426:240", "-b:v", "250k", "-b:a", "128k">>

presets(name) ==
    CASE name = "720p" -> <<"-vf", "scale=1280:720", "-b:v", "2M", "-b:a", "128k">>
      [] name = "480p" -> <<"-vf", "scale=854:480", "-b:v", "1M", "-b:a", "96k">>
      [] name = "360p" -> <<"-vf", "scale=640:360", "-b:v", "500k", "-b:a", "64k">>
      [] name = "240p" -> <<"-vf", "scale=426:240", "-b:v", "250k", "-b:a", "64k">>

PresetNames == {"720p", "480p", "360p", "240p"}

_parse_scale_settings(scale_in) ==
    LET scale == Strip(Lower(scale_in))
        parts == Split(scale, ":")
        width == PyInt(parts[1])
        height == PyInt(parts[2])
        bitrate == IF Len(parts) > 2 THEN parts[3] ELSE "1M"
    IN  IF scale \in PresetNames THEN Returned(presets(scale))
        ELSE IF Contains(scale, ":") /\ Len(parts) >= 2 THEN
            IF width.ok /\ height.ok
            THEN Returned(<<"-vf",
                            "scale=" \o ToString(width.val) \o ":" \o ToString(height.val),
                            "-b:v", bitrate, "-b:a", "128k">>)
            ELSE Raised("ValueError", "Invalid custom scale format: " \o scale)
        ELSE Raised("ValueError", "Invalid scale setting: " \o scale
                    \o ". Use presets (720p, 480p, 360p, 240p) or custom format (width:height:bitrate)")

-----------------------------------------------------------------------------
(* Paths: os.path.join, os.path.splitext, pathlib's suffix *)

\* The last position of the character c in s, 0 when there is none (str.rfind + 1).
RFind(s, c) ==
    LET RECURSIVE back(_)
        back(k) == IF k = 0 THEN 0 ELSE IF Char(s, k) = c THEN k ELSE back(k - 1)
    IN  back(Len(s))

\* os.path.join(a, b) on one separator.
path_join(a, b) ==
    IF b # "" /\ Char(b, 1) = "/" THEN b
    ELSE IF a = "" \/ Char(a, Len(a)) = "/" THEN a \o b
    ELSE a \o "/" \o b

\* os.path.splitext(p): the extension starts at the last dot of the last
\* component; leading dots of the component do not start one.
splitext(p) ==
    LET sepIndex == RFind(p, "/")
        dotIndex == RFind(p, ".")
    IN  IF /\ dotIndex > sepIndex
           /\ \E k \in (sepIndex + 1)..(dotIndex - 1) : Char(p, k) # "."
        THEN <<SubSeq(p, 1, dotIndex - 1), SubSeq(p, dotIndex, Len(p))>>
        ELSE <<p, "">>

\* Path(p).suffix[1:]
suffix_without_dot(p) ==
    LET name == SubSeq(p, RFind(p, "/") + 1, Len(p))
        k == RFind(name, ".")
    IN  IF 1 < k /\ k < Len(name) THEN SubSeq(name, k + 1, Len(name)) ELSE ""

-----------------------------------------------------------------------------
(* VideoCutter._create_safe_filename *)

\* f"{base_name}_{counter}{ext}"
numbered(base_name, counter, ext) == base_name \o "_" \o ToString(counter) \o ext

\* first_unused without the loop: the counter it is given, unchecked.
first_unused_unchecked(base_name, ext, counter, files) == numbered(base_name, counter, ext)

RECURSIVE first_unused(_, _, _, _)
\* The while loop: the first counter whose name does not exist.
first_unused(base_name, ext, counter, files) ==
    IF numbered(base_name, counter, ext) \in files
    THEN first_unused(base_name, ext, counter + 1, files)
    ELSE numbered(base_name, counter, ext)

\* files: the paths for which os.path.exists is true at the call.
_create_safe_filename(candidate, files) ==
    IF candidate \notin files THEN candidate
    ELSE first_unused(splitext(candidate)[1], splitext(candidate)[2], 1, files)

-----------------------------------------------------------------------------
(* The segment plan: cut_video lines 110-123, cut_video_with_progress 623-629 *)

RECURSIVE parse_all(_)
\* The for loop over timestamps: the first failing parse_timestamp raises.
parse_all(timestamps) ==
    IF timestamps = <<>> THEN Returned(<<>>)
    ELSE LET head == parse_timestamp(Head(timestamps))
             rest == parse_all(Tail(timestamps))
         IN  IF ~head.ok THEN head
             ELSE IF ~rest.ok THEN rest
             ELSE Returned(<<head.val>> \o rest.val)

RECURSIVE insert_sorted(_, _)
insert_sorted(x, sorted) ==
    IF sorted = <<>> THEN <<x>>
    ELSE IF StrLess(x, Head(sorted)) THEN <<x>> \o sorted
    ELSE <<Head(sorted)>> \o insert_sorted(x, Tail(sorted))

RECURSIVE list_sort(_)
\* list.sort() on str: ascending by code points.
list_sort(list) ==
    IF list = <<>> THEN <<>> ELSE insert_sorted(Head(list), list_sort(Tail(list)))

\* add_start without its test: "00:00:00" is inserted whatever the list holds.
add_start_always(sorted) == <<"00:00:00">> \o sorted

\* if parsed_timestamps[0] != "00:00:00": parsed_timestamps.insert(0, "00:00:00")
add_start(sorted) ==
    IF sorted[1] # "00:00:00" THEN <<"00:00:00">> \o sorted ELSE sorted

cut_video_plan(timestamps) ==
    IF timestamps = <<>>
    THEN Raised("ValueError", "At least one timestamp is required")
    ELSE LET parsed == parse_all(timestamps)
         IN  IF parsed.ok THEN Returned(add_start(list_sort(parsed.val))) ELSE parsed

\* cut_video_with_progress_plan without the sort.
cut_video_with_progress_plan_unsorted(timestamps) ==
    LET parsed == parse_all(timestamps)
    IN  IF ~parsed.ok THEN parsed
        ELSE IF parsed.val = <<>> THEN Raised("IndexError", "list index out of range")
        ELSE Returned(add_start(parsed.val))

\* The GUI's copy has no emptiness check: parsed_timestamps[0] raises on [].
cut_video_with_progress_plan(timestamps) ==
    LET parsed == parse_all(timestamps)
    IN  IF ~parsed.ok THEN parsed
        ELSE IF parsed.val = <<>> THEN Raised("IndexError", "list index out of range")
        ELSE Returned(add_start(list_sort(parsed.val)))

-----------------------------------------------------------------------------
(* The argument vectors *)

\* bool(x) of an optional str
Truthy(x) == x # None /\ x # ""

\* segment_base_filename numbered by the segments created so far, not by the
\* position: every segment is named as the first.
segment_base_filename_unnumbered(output_prefix, idx, input_video, output_dir) ==
    LET name == output_prefix \o "_segment_" \o ToString(1) \o "."
                \o suffix_without_dot(input_video)
    IN  IF Truthy(output_dir) THEN path_join(output_dir, name) ELSE name

\* f"{output_prefix}_segment_{i+1}.{input_path.suffix[1:]}", joined to output_dir
segment_base_filename(output_prefix, idx, input_video, output_dir) ==
    LET name == output_prefix \o "_segment_" \o ToString(idx + 1) \o "."
                \o suffix_without_dot(input_video)
    IN  IF Truthy(output_dir) THEN path_join(output_dir, name) ELSE name

\* cut_video_cmd with the copy flag left in the scaling branches.
cut_video_cmd_copy_kept(input_video, start_time, end_time, sargs, out) ==
    IF end_time # None
    THEN <<"ffmpeg", "-i", input_video, "-ss", start_time, "-to", end_time,
           "-c", "copy", "-avoid_negative_ts", "make_zero", "-y">> \o sargs \o <<out>>
    ELSE <<"ffmpeg", "-i", input_video, "-ss", start_time,
           "-c", "copy", "-avoid_negative_ts", "make_zero", "-y">> \o sargs \o <<out>>

\* cut_video lines 163-207; end_time = None for the last segment
cut_video_cmd(input_video, start_time, end_time, sargs, out) ==
    IF end_time # None THEN
        IF sargs # <<>>
        THEN <<"ffmpeg", "-i", input_video, "-ss", start_time, "-to", end_time,
               "-avoid_negative_ts", "make_zero", "-y">> \o sargs \o <<out>>
        ELSE <<"ffmpeg", "-i", input_video, "-ss", start_time, "-to", end_time,
               "-c", "copy", "-avoid_negative_ts", "make_zero", "-y", out>>
    ELSE
        IF sargs # <<>>
        THEN <<"ffmpeg", "-i", input_video, "-ss", start_time,
               "-avoid_negative_ts", "make_zero", "-y">> \o sargs \o <<out>>
        ELSE <<"ffmpeg", "-i", input_video, "-ss", start_time,
               "-c", "copy", "-avoid_negative_ts", "make_zero", "-y", out>>

\* cut_video_with_progress_cmd with the end time left out of the scaling branch.
cut_video_with_progress_cmd_no_end(input_video, start_time, end_time, sargs, out) ==
    IF sargs # <<>>
    THEN <<"ffmpeg", "-i", input_video, "-ss", start_time,
           "-avoid_negative_ts", "make_zero", "-y">> \o sargs \o <<out>>
    ELSE IF end_time # None
    THEN <<"ffmpeg", "-i", input_video, "-ss", start_time, "-to", end_time,
           "-c", "copy", "-avoid_negative_ts", "make_zero", "-y", out>>
    ELSE <<"ffmpeg", "-i", input_video, "-ss", start_time,
           "-c", "copy", "-avoid_negative_ts", "make_zero", "-y", out>>

\* cut_video_with_progress lines 673-721
cut_video_with_progress_cmd(input_video, start_time, end_time, sargs, out) ==
    IF end_time # None THEN
        IF sargs # <<>>
        THEN <<"ffmpeg", "-i", input_video, "-ss", start_time, "-to", end_time,
               "-avoid_negative_ts", "make_zero", "-y">> \o sargs \o <<out>>
        ELSE <<"ffmpeg", "-i", input_video, "-ss", start_time, "-to", end_time,
               "-c", "copy", "-avoid_negative_ts", "make_zero", "-y", out>>
    ELSE
        IF sargs # <<>>
        THEN <<"ffmpeg", "-i", input_video, "-ss", start_time,
               "-avoid_negative_ts", "make_zero", "-y">> \o sargs \o <<out>>
        ELSE <<"ffmpeg", "-i", input_video, "-ss", start_time,
               "-c", "copy", "-avoid_negative_ts", "make_zero", "-y", out>>

\* after_segment with break in place of continue: a failure ends the loop.
after_segment_break(outcome, idx, n) ==
    IF outcome = "ok" /\ idx + 1 < n THEN "build" ELSE "report"

\* for i in range(len(parsed_timestamps)), with continue in both except arms:
\* the next position after segment idx, whatever its outcome.
after_segment(outcome, idx, n) == IF idx + 1 < n THEN "build" ELSE "report"

-----------------------------------------------------------------------------
(* Events: a line printed by the command line, or an item put on the GUI's
   progress_queue.  type is "print" or the queue item's message_type. *)

Ev(type, kind, seg, text) ==
    [type |-> type, kind |-> kind, seg |-> seg, text |-> text, files |-> <<>>]

\* print(...) or self.progress_queue.put(("message", ...)), by entry point
Say(engine, kind, seg, text) ==
    Ev(IF engine = "cli" THEN "print" ELSE "message", kind, seg, text)

\* sub in s
HasSub(s, sub) ==
    \E k \in 1..(Len(s) - Len(sub) + 1) : SubSeq(s, k, k + Len(sub) - 1) = sub

\* os.path.basename
basename(p) == SubSeq(p, RFind(p, "/") + 1, Len(p))

RECURSIVE join_comma(_)
\* ', '.join(list)
join_comma(list) ==
    IF list = <<>> THEN ""
    ELSE IF Len(list) = 1 THEN list[1]
    ELSE list[1] \o ", " \o join_comma(Tail(list))

NoError == [type |-> None, msg |-> ""]

\* What the exception handlers around the transcoder tell the user.
\* cut_video lines 221-240; cut_video_with_progress lines 728-742.
failure_events(engine, idx, out, outcome) ==
    LET error_msg == IF outcome.stderr # "" THEN Strip(outcome.stderr)
                     ELSE "Command returned non-zero exit status 1."
    IN  IF outcome.kind = "exception" THEN
            IF engine = "cli"
            THEN <<Say(engine, "failure", idx + 1,
                       "Unexpected error creating " \o out \o ": " \o outcome.stderr)>>
            ELSE <<Say(engine, "failure", idx + 1,
                       "Unexpected error with segment " \o ToString(idx + 1) \o ": "
                       \o outcome.stderr)>>
        ELSE IF engine = "cli" THEN
            <<Say(engine, "failure", idx + 1,
                  "Error creating " \o out \o ": " \o error_msg)>>
            \o (IF HasSub(error_msg, "Permission denied") THEN
                    <<Say(engine, "hint", idx + 1, "  -> This might be due to:"),
                      Say(engine, "hint", idx + 1,
                          "    - File is currently open in another application"),
                      Say(engine, "hint", idx + 1,
                          "    - Insufficient write permissions in current directory"),
                      Say(engine, "hint", idx + 1,
                          "    - Antivirus software blocking file creation"),
                      Say(engine, "hint", idx + 1,
                          "  -> Try closing other applications or running as administrator")>>
                ELSE IF HasSub(error_msg, "No such file or directory") THEN
                    <<Say(engine, "hint", idx + 1,
                          "  -> Check that the input file path is correct")>>
                ELSE IF HasSub(error_msg, "Invalid argument") THEN
                    <<Say(engine, "hint", idx + 1,
                          "  -> Check that the input file is a valid video format")>>
                ELSE <<>>)
        ELSE
            <<Say(engine, "failure", idx + 1,
                  "Error creating segment " \o ToString(idx + 1) \o ": " \o error_msg)>>
            \o (IF HasSub(error_msg, "Permission denied") THEN
                    <<Say(engine, "hint", idx + 1,
                          "   -> Try running as administrator or choose a different output directory")>>
                ELSE IF HasSub(error_msg, "No such file or directory") THEN
                    <<Say(engine, "hint", idx + 1,
                          "   -> Check that the input file path is correct")>>
                ELSE IF HasSub(error_msg, "Invalid argument") THEN
                    <<Say(engine, "hint", idx + 1,
                          "   -> Check that the input file is a valid video format")>>
                ELSE <<>>)

\* completion_events where the GUI puts ("complete", ...) before the file list.
completion_events_early(engine, files) ==
    LET summary == Say(engine, "summary", 0,
                       "Successfully created " \o ToString(Len(files))
                       \o " video segments:")
    IN  IF engine = "cli" THEN <<summary>>
        ELSE <<summary,
               Ev("complete", "complete", 0, "success"),
               [type |-> "file_results", kind |-> "file_results", seg |-> 0,
                text |-> "", files |-> files]>>

\* After the loop: main lines 294-296; cut_video_thread lines 597-614.
completion_events(engine, files) ==
    LET summary == Say(engine, "summary", 0,
                       "Successfully created " \o ToString(Len(files))
                       \o " video segments:")
    IN  IF engine = "cli" THEN
            <<summary>>
            \o [k \in 1..Len(files) |->
                   Say(engine, "item", 0, "  " \o ToString(k) \o ". " \o files[k])]
        ELSE
            <<Say(engine, "rule", 0, "--------------------------------------------------"),
              summary>>
            \o [k \in 1..Len(files) |->
                   Say(engine, "item", 0,
                       "  " \o ToString(k) \o ". " \o basename(files[k]) \o " (size MB)")]
            \o <<Say(engine, "total", 0, "Total output size: size MB"),
                 [type |-> "file_results", kind |-> "file_results", seg |-> 0,
                  text |-> "", files |-> files],
                 Ev("complete", "complete", 0, "success")>>

\* An exception left the engine: main lines 298-300; cut_video_thread 616-618.
error_events(engine, err) ==
    IF engine = "cli" THEN <<Say(engine, "error", 0, "Error: " \o err.msg)>>
    ELSE <<Say(engine, "error", 0, "Error: " \o err.msg),
           Ev("complete", "complete", 0, "error")>>

-----------------------------------------------------------------------------
(* The inputs of the model *)

MaxTimestamps == 2

\* The raw timestamps the engine is started with.
EngineTimestamps == {"0", "90", "abc"}

\* The scale selectors the engine is started with.
EngineScales == {None, "720P", "1280:720:1.5M", "bogus"}

SeqsUpTo(S, n) == UNION {[1..k -> S] : k \in 0..n}

Jobs ==
    [engine : {"cli", "gui"},
     input_video : {"in.mp4"},
     timestamps : SeqsUpTo(EngineTimestamps, MaxTimestamps),
     output_prefix : {"output"},
     scale : EngineScales,
     output_dir : {None, "out"}]

\* Files an earlier run of the same job may have left behind.
Leftovers(j) ==
    LET first == segment_base_filename(j.output_prefix, 0, j.input_video, j.output_dir)
    IN  {{}, {first, numbered(splitext(first)[1], 1, splitext(first)[2])}}

\* What the transcoder can do with one invocation: exit 0 having written the
\* output; exit non-zero with some stderr text (none: the message is str(e)),
\* having left a partial output or, always so when it could not open its
\* files, none; or not start at all (subprocess.run raises).
RunOutcomes ==
    {[kind |-> "ok", stderr |-> "", leftover |-> TRUE],
     [kind |-> "exception", stderr |-> "[Errno 2] No such file or directory: 'ffmpeg'",
      leftover |-> FALSE],
     [kind |-> "failed", stderr |-> "out.mp4: Permission denied", leftover |-> FALSE],
     [kind |-> "failed", stderr |-> "in.mp4: No such file or directory",
      leftover |-> FALSE]}
    \cup [kind : {"failed"}, stderr : {"in.mp4: Invalid argument", ""},
          leftover : BOOLEAN]

\* How the probe of lines 137-143 can end.
ProbeOutcomes == {"ok", "open_denied", "remove_denied", "open_oserror"}

write_file(files, path, content) == [q \in DOMAIN files \cup {path} |->
                                        IF q = path THEN content ELSE files[q]]

remove_file(files, path) == [q \in DOMAIN files \ {path} |-> files[q]]

-----------------------------------------------------------------------------
(* The run of one job *)

Init ==
    /\ GuiUnused
    /\ job \in Jobs
    /\ \E input_exists \in BOOLEAN, left \in Leftovers(job) :
           /\ fs = [q \in left \cup (IF input_exists THEN {job.input_video} ELSE {})
                       |-> "old"]
           /\ dirs = {"."} \cup (IF left # {} /\ Truthy(job.output_dir)
                                 THEN {job.output_dir} ELSE {})
    /\ pc = "start"
    /\ parsed_timestamps = <<>>
    /\ scale_args = <<>>
    /\ i = 0
    /\ base_filename = None
    /\ output_filename = None
    /\ cmd = <<>>
    /\ output_files = <<>>
    /\ error = NoError
    /\ events = <<>>
    /\ built = <<>>
    /\ invocations = <<>>
    /\ probe = None
    /\ arg = None
    /\ ret = None
    /\ calls = <<>>

\* The preamble cut_video_thread puts on the queue (lines 575-586).
preamble_events(j) ==
    <<Ev("message", "preamble", 0, "Starting to cut video: " \o basename(j.input_video)),
      Ev("message", "preamble", 0, "Timestamps: " \o join_comma(j.timestamps))>>
    \o (IF Truthy(j.scale)
        THEN <<Ev("message", "preamble", 0, "Scale: " \o j.scale),
               Ev("message", "preamble", 0,
                  "Scaling enabled - this will take longer as video needs to be re-encoded")>>
        ELSE <<Ev("message", "preamble", 0,
                  "Fast mode - copying streams without re-encoding")>>)
    \o <<Ev("message", "preamble", 0,
            "Output directory: "
            \o (IF Truthy(j.output_dir) THEN j.output_dir ELSE "Current directory")),
         Ev("message", "preamble", 0, "--------------------------------------------------")>>

\* VideoCutter(input_video): main line 291, cut_video_thread lines 559-586.
Start ==
    /\ pc = "start"
    /\ IF job.input_video \in DOMAIN fs
       THEN /\ pc' = "planning"
            /\ error' = error
            /\ events' = IF job.engine = "gui" THEN events \o preamble_events(job)
                         ELSE events
       ELSE /\ pc' = "raised"
            /\ error' = [type |-> "FileNotFoundError",
                         msg |-> "Input video file not found: " \o job.input_video]
            /\ events' = events
    /\ UNCHANGED gui_vars
    /\ UNCHANGED <<job, fs, dirs, parsed_timestamps, scale_args, i, base_filename,
                   output_filename, cmd, output_files, built, invocations, probe,
                   arg, ret, calls>>

\* cut_video lines 110-126; cut_video_with_progress lines 623-632.
Plan ==
    /\ pc = "planning"
    /\ LET plan == IF job.engine = "cli" THEN cut_video_plan(job.timestamps)
                   ELSE cut_video_with_progress_plan(job.timestamps)
       IN  IF plan.ok
           THEN /\ parsed_timestamps' = plan.val
                /\ output_files' = <<>>
                /\ pc' = "preflight"
                /\ error' = error
           ELSE /\ pc' = "raised"
                /\ error' = [type |-> plan.type, msg |-> plan.msg]
                /\ UNCHANGED <<parsed_timestamps, output_files>>
    /\ UNCHANGED gui_vars
    /\ UNCHANGED <<job, fs, dirs, scale_args, i, base_filename, output_filename, cmd,
                   events, built, invocations, probe, arg, ret, calls>>

\* What line 143 (649) raises for a PermissionError inside the try.
no_write_permission(test_dir) ==
    [type |-> "PermissionError",
     msg |-> "No write permission in directory '" \o test_dir
             \o "'. Try running as administrator or choosing a different directory."]

\* after_probe with the PermissionError swallowed.
after_probe_swallowed(outcome) == "scale"

\* The position after the probe, by how it ended: lines 137-143.
after_probe(outcome) == IF outcome = "ok" THEN "scale" ELSE "raised"

\* cut_video lines 128-143; cut_video_with_progress lines 634-649.
\* mkdir_ok = FALSE: output_path.mkdir raises (the directory cannot be made).
Preflight ==
    /\ pc = "preflight"
    /\ \E mkdir_ok \in BOOLEAN, outcome \in ProbeOutcomes :
         LET test_dir == IF Truthy(job.output_dir) THEN job.output_dir ELSE "."
             test_file == path_join(test_dir, "temp_permission_test.tmp")
             mkdir_raises == Truthy(job.output_dir) /\ job.output_dir \notin dirs /\ ~mkdir_ok
         IN  IF mkdir_raises
             THEN /\ pc' = "raised"
                  /\ error' = [type |-> "PermissionError",
                               msg |-> "[Errno 13] Permission denied: '"
                                       \o job.output_dir \o "'"]
                  /\ UNCHANGED <<fs, dirs, probe>>
             ELSE /\ dirs' = IF Truthy(job.output_dir) THEN dirs \cup {job.output_dir}
                             ELSE dirs
                  /\ probe' = outcome
                  /\ pc' = after_probe(outcome)
                  /\ fs' = CASE outcome = "ok" -> remove_file(fs, test_file)
                             [] outcome = "remove_denied" -> write_file(fs, test_file, "test")
                             [] OTHER -> fs
                  /\ error' = CASE outcome = "ok" -> error
                                [] outcome = "open_oserror" ->
                                       [type |-> "OSError",
                                        msg |-> "[Errno 28] No space left on device: '"
                                                \o test_file \o "'"]
                                [] OTHER -> no_write_permission(test_dir)
    /\ UNCHANGED gui_vars
    /\ UNCHANGED <<job, parsed_timestamps, scale_args, i, base_filename, output_filename,
                   cmd, output_files, events, built, invocations, arg, ret, calls>>

\* cut_video lines 145-148; cut_video_with_progress lines 651-656.
ResolveScale ==
    /\ pc = "scale"
    /\ LET resolved == IF Truthy(job.scale) THEN _parse_scale_settings(job.scale)
                       ELSE Returned(<<>>)
       IN  IF resolved.ok
           THEN /\ scale_args' = resolved.val
                /\ i' = 0
                /\ pc' = "build"
                /\ error' = error
           ELSE /\ pc' = "raised"
                /\ error' = [type |-> resolved.type, msg |-> resolved.msg]
                /\ UNCHANGED <<scale_args, i>>
    /\ UNCHANGED gui_vars
    /\ UNCHANGED <<job, fs, dirs, parsed_timestamps, base_filename, output_filename, cmd,
                   output_files, events, built, invocations, probe, arg, ret, calls>>

\* starting_events with the GUI's message of the mode left out.
starting_events_no_mode(engine, idx, n, start_time, end_time, sargs, out) ==
    LET to == IF end_time # None THEN end_time ELSE "end"
    IN  IF engine = "cli"
        THEN <<Say(engine, "creating", idx + 1,
                   "Creating segment " \o ToString(idx + 1) \o ": " \o start_time
                   \o " -> " \o to),
               Say(engine, "output", idx + 1, "Output: " \o out),
               Say(engine, "starting", idx + 1,
                   IF sargs # <<>> THEN "Processing with scaling (this may take a while)..."
                   ELSE "Fast copying (no re-encoding)...")>>
        ELSE <<Say(engine, "progress", idx + 1,
                   "Processing segment " \o ToString(idx + 1) \o " of " \o ToString(n)
                   \o "...")>>

\* The messages before the transcoder runs: cut_video lines 209-215;
\* cut_video_with_progress lines 663, 674, 684, 703, 712.
starting_events(engine, idx, n, start_time, end_time, sargs, out) ==
    LET to == IF end_time # None THEN end_time ELSE "end"
    IN  IF engine = "cli"
        THEN <<Say(engine, "creating", idx + 1,
                   "Creating segment " \o ToString(idx + 1) \o ": " \o start_time
                   \o " -> " \o to),
               Say(engine, "output", idx + 1, "Output: " \o out),
               Say(engine, "starting", idx + 1,
                   IF sargs # <<>> THEN "Processing with scaling (this may take a while)..."
                   ELSE "Fast copying (no re-encoding)...")>>
        ELSE <<Say(engine, "progress", idx + 1,
                   "Processing segment " \o ToString(idx + 1) \o " of " \o ToString(n)
                   \o "..."),
               Say(engine, "starting", idx + 1,
                   (IF sargs # <<>> THEN "Scaling " ELSE "Fast copying ")
                   \o (IF end_time # None THEN "segment " ELSE "final segment ")
                   \o ToString(idx + 1) \o " (" \o start_time \o " -> " \o to \o ")"
                   \o (IF sargs # <<>> THEN " - Please wait..." ELSE ""))>>

\* One iteration up to the built command: cut_video lines 151-215;
\* cut_video_with_progress lines 659-721.
BuildSegment ==
    /\ pc = "build"
    /\ LET n == Len(parsed_timestamps)
           start_time == parsed_timestamps[i + 1]
           end_time == IF i + 1 < n THEN parsed_timestamps[i + 2] ELSE None
           base == segment_base_filename(job.output_prefix, i, job.input_video,
                                         job.output_dir)
           out == _create_safe_filename(base, DOMAIN fs)
           argv == IF job.engine = "cli"
                   THEN cut_video_cmd(job.input_video, start_time, end_time, scale_args, out)
                   ELSE cut_video_with_progress_cmd(job.input_video, start_time, end_time,
                                                    scale_args, out)
       IN  /\ base_filename' = base
           /\ output_filename' = out
           /\ cmd' = argv
           /\ events' = events \o starting_events(job.engine, i, n, start_time, end_time,
                                                  scale_args, out)
           /\ built' = Append(built, [seg |-> i + 1, start |-> start_time,
                                      end |-> end_time, base |-> base, out |-> out,
                                      cmd |-> argv, existing |-> DOMAIN fs])
    /\ pc' = "run"
    /\ UNCHANGED gui_vars
    /\ UNCHANGED <<job, fs, dirs, parsed_timestamps, scale_args, i, output_files, error,
                   invocations, probe, arg, ret, calls>>

\* subprocess.run(cmd, check=True) and its handlers: cut_video lines 217-240;
\* cut_video_with_progress lines 724-742.
RunSegment ==
    /\ pc = "run"
    /\ \E outcome \in RunOutcomes :
         /\ invocations' = Append(invocations, [seg |-> i + 1, cmd |-> cmd,
                                                 outcome |-> outcome.kind])
         /\ fs' = IF outcome.leftover
                  THEN write_file(fs, output_filename,
                                  IF outcome.kind = "ok" THEN "segment" ELSE "partial")
                  ELSE fs
         /\ IF outcome.kind = "ok"
            THEN /\ output_files' = Append(output_files, output_filename)
                 /\ events' = Append(events,
                        Say(job.engine, "success", i + 1,
                            IF job.engine = "cli"
                            THEN "Successfully created " \o output_filename
                            ELSE "Successfully created: " \o basename(output_filename)))
            ELSE /\ output_files' = output_files
                 /\ events' = events \o failure_events(job.engine, i, output_filename,
                                                       outcome)
         /\ pc' = after_segment(outcome.kind, i, Len(parsed_timestamps))
    /\ i' = i + 1
    /\ UNCHANGED gui_vars
    /\ UNCHANGED <<job, dirs, parsed_timestamps, scale_args, base_filename,
                   output_filename, cmd, error, built, probe, arg, ret, calls>>

\* return output_files and the report: cut_video line 242 and main lines 294-296;
\* cut_video_with_progress line 744 and cut_video_thread lines 597-614.
Report ==
    /\ pc = "report"
    /\ events' = events \o completion_events(job.engine, output_files)
    /\ pc' = "done"
    /\ UNCHANGED gui_vars
    /\ UNCHANGED <<job, fs, dirs, parsed_timestamps, scale_args, i, base_filename,
                   output_filename, cmd, output_files, error, built, invocations, probe,
                   arg, ret, calls>>

\* except Exception: main lines 298-300; cut_video_thread lines 616-618.
HandleError ==
    /\ pc = "raised"
    /\ events' = events \o error_events(job.engine, error)
    /\ pc' = "exited"
    /\ UNCHANGED gui_vars
    /\ UNCHANGED <<job, fs, dirs, parsed_timestamps, scale_args, i, base_filename,
                   output_filename, cmd, output_files, error, built, invocations, probe,
                   arg, ret, calls>>

Next ==
    \/ Start
    \/ Plan
    \/ Preflight
    \/ ResolveScale
    \/ BuildSegment
    \/ RunSegment
    \/ Report
    \/ HandleError

Spec == Init /\ [][Next]_vars

-----------------------------------------------------------------------------
(* parse_timestamp on its own: one call per behaviour *)

MaxFields == 4

\* The text between the colons of a raw timestamp.
ParseFields == {"0", "1", "01", "00", "30", "90", "225", "-5", "abc", "", " 7"}

RECURSIVE join_colon(_)
join_colon(fields) ==
    IF Len(fields) = 1 THEN fields[1]
    ELSE fields[1] \o ":" \o join_colon(Tail(fields))

ParseInputs ==
    {join_colon(fields) : fields \in SeqsUpTo(ParseFields, MaxFields) \ {<<>>}}

\* The variables of the engine, which the function specifications leave alone.
engine_vars == <<job, dirs, parsed_timestamps, scale_args, i, base_filename,
                 output_filename, cmd, output_files, error, events, built,
                 invocations, probe>>

EngineUnused ==
    /\ job = None
    /\ dirs = {"."}
    /\ parsed_timestamps = <<>>
    /\ scale_args = <<>>
    /\ i = 0
    /\ base_filename = None
    /\ output_filename = None
    /\ cmd = <<>>
    /\ output_files = <<>>
    /\ error = NoError
    /\ events = <<>>
    /\ built = <<>>
    /\ invocations = <<>>
    /\ probe = None

InitParse ==
    /\ GuiUnused
    /\ EngineUnused
    /\ fs = <<>>
    /\ pc = "call"
    /\ arg \in ParseInputs
    /\ ret = None
    /\ calls = <<>>

\* VideoCutter.parse_timestamp(arg)
ParseTimestamp ==
    /\ pc = "call"
    /\ ret' = parse_timestamp(arg)
    /\ pc' = "returned"
    /\ UNCHANGED gui_vars
    /\ UNCHANGED <<engine_vars, fs, arg, calls>>

NextParse == ParseTimestamp

SpecParse == InitParse /\ [][NextParse]_vars

-----------------------------------------------------------------------------
(* _create_safe_filename on its own: the names asked for one after another,
   as the segment loop does, each followed by the transcoder writing the
   returned path or not *)

MaxCalls == 3

\* The candidates: a segment's base name, and a name with no extension in a
\* directory whose name has a dot.
NamerCandidates == {segment_base_filename("output", 0, "in.mp4", None), "v1.0/clip"}

\* The files that may exist before the first call.
NamerFiles ==
    NamerCandidates
    \cup {numbered(splitext(c)[1], k, splitext(c)[2]) : c \in NamerCandidates, k \in 1..2}

InitNamer ==
    /\ GuiUnused
    /\ EngineUnused
    /\ \E existing \in SUBSET NamerFiles : fs = [q \in existing |-> "old"]
    /\ pc = "idle"
    /\ arg = None
    /\ ret = None
    /\ calls = <<>>

\* NameSegment with every name decided against the files of the first call.
NameSegment_upfront ==
    /\ pc = "idle"
    /\ Len(calls) < MaxCalls
    /\ \E candidate \in NamerCandidates :
         LET files == IF calls = <<>> THEN DOMAIN fs ELSE DOMAIN calls[1].snapshot
         IN  /\ arg' = candidate
             /\ ret' = _create_safe_filename(candidate, files)
             /\ calls' = Append(calls, [candidate |-> candidate,
                                        result |-> _create_safe_filename(candidate, files),
                                        snapshot |-> fs,
                                        created |-> FALSE])
    /\ pc' = "named"
    /\ UNCHANGED gui_vars
    /\ UNCHANGED <<engine_vars, fs>>

\* output_filename = self._create_safe_filename(base_filename)
NameSegment ==
    /\ pc = "idle"
    /\ Len(calls) < MaxCalls
    /\ \E candidate \in NamerCandidates :
         /\ arg' = candidate
         /\ ret' = _create_safe_filename(candidate, DOMAIN fs)
         /\ calls' = Append(calls, [candidate |-> candidate,
                                    result |-> _create_safe_filename(candidate, DOMAIN fs),
                                    snapshot |-> fs,
                                    created |-> FALSE])
    /\ pc' = "named"
    /\ UNCHANGED gui_vars
    /\ UNCHANGED <<engine_vars, fs>>

\* The transcoder writes the returned path.
WriteReturned ==
    /\ pc = "named"
    /\ fs' = write_file(fs, ret, "segment")
    /\ calls' = [calls EXCEPT ![Len(calls)].created = TRUE]
    /\ pc' = "idle"
    /\ UNCHANGED gui_vars
    /\ UNCHANGED <<engine_vars, arg, ret>>

\* The transcoder fails and leaves nothing.
WriteNothing ==
    /\ pc = "named"
    /\ pc' = "idle"
    /\ UNCHANGED gui_vars
    /\ UNCHANGED <<engine_vars, fs, arg, ret, calls>>

NextNamer ==
    \/ NameSegment
    \/ WriteReturned
    \/ WriteNothing

SpecNamer == InitNamer /\ [][NextNamer]_vars

-----------------------------------------------------------------------------
(* Scale resolution alone: lines 145-148 of cut_video (651-654 of
   cut_video_with_progress) on one selector. *)

MaxScaleFields == 4

\* The text between the colons of a custom selector.
ScaleFields == {"1280", "720", "0", "-1", "abc", "1.5M"}

\* The preset names as a caller may spell them.
PresetSelectors ==
    {"720p", "720P", " 720P ", "480p", "480P", "360p", "360P", "240p", "240P"}

\* No selector (None, ""), blanks, the presets, and the colon-separated ones.
ScaleInputs ==
    {None, "", " "} \cup PresetSelectors
    \cup {join_colon(fields) : fields \in SeqsUpTo(ScaleFields, MaxScaleFields) \ {<<>>}}

InitScale ==
    /\ GuiUnused
    /\ EngineUnused
    /\ fs = <<>>
    /\ pc = "call"
    /\ arg \in ScaleInputs
    /\ ret = None
    /\ calls = <<>>

\* scale_args = []; if scale: scale_args = self._parse_scale_settings(scale)
ResolveSelector ==
    /\ pc = "call"
    /\ ret' = IF Truthy(arg) THEN _parse_scale_settings(arg) ELSE Returned(<<>>)
    /\ pc' = "returned"
    /\ UNCHANGED gui_vars
    /\ UNCHANGED <<engine_vars, fs, arg, calls>>

NextScale == ResolveSelector

SpecScale == InitScale /\ [][NextScale]_vars

-----------------------------------------------------------------------------
(* Preflight alone: lines 128-143 of cut_video (634-649 of
   cut_video_with_progress), on a directory that may hold files already. *)

\* The directory the probe is made in.
test_dir_of(j) == IF Truthy(j.output_dir) THEN j.output_dir ELSE "."

\* Files that may be in the probed directory before the probe: one of the
\* probe's own name, and another.
ProbedBefore(j) ==
    SUBSET {path_join(test_dir_of(j), "temp_permission_test.tmp"),
            path_join(test_dir_of(j), "notes.txt")}

\* The jobs whose planning succeeds.
PlannedJobs == {j \in Jobs : cut_video_plan(j.timestamps).ok}

\* The state when planning has returned; arg keeps the files as they were.
InitPreflight ==
    /\ GuiUnused
    /\ job \in PlannedJobs
    /\ \E before \in ProbedBefore(job), dir_exists \in BOOLEAN :
           /\ fs = [q \in before \cup {job.input_video} |-> "old"]
           /\ dirs = {"."} \cup (IF before # {} \/ dir_exists
                                 THEN {test_dir_of(job)} ELSE {})
    /\ arg = fs
    /\ pc = "preflight"
    /\ parsed_timestamps = cut_video_plan(job.timestamps).val
    /\ scale_args = <<>>
    /\ i = 0
    /\ base_filename = None
    /\ output_filename = None
    /\ cmd = <<>>
    /\ output_files = <<>>
    /\ error = NoError
    /\ events = <<>>
    /\ built = <<>>
    /\ invocations = <<>>
    /\ probe = None
    /\ ret = None
    /\ calls = <<>>

NextPreflight == Preflight

SpecPreflight == InitPreflight /\ [][NextPreflight]_vars

-----------------------------------------------------------------------------
(* Planning alone: the boundaries made of a list of raw timestamps, by
   cut_video (lines 110-123) and by cut_video_with_progress (lines 623-629). *)

MaxPlanned == 3

\* The raw timestamps of a plan: spellings of one time, seconds above 59.
PlanTimestamps == {"0", "59", "90", "225", "1:00", "1:30", "01:30", "00:01:30"}

\* VideoCutterGUI.timestamp_to_seconds, the seconds the preview reads in a
\* boundary.
timestamp_to_seconds(timestamp) ==
    LET parts == Split(timestamp, ":")
    IN  PyInt(parts[1]).val * 3600 + PyInt(parts[2]).val * 60 + PyInt(parts[3]).val

InitPlan ==
    /\ GuiUnused
    /\ EngineUnused
    /\ fs = <<>>
    /\ pc = "call"
    /\ arg \in [engine : {"cli", "gui"},
                timestamps : SeqsUpTo(PlanTimestamps, MaxPlanned)]
    /\ ret = None
    /\ calls = <<>>

\* The planning lines of the engine arg.engine, on arg.timestamps.
PlanSegments ==
    /\ pc = "call"
    /\ ret' = IF arg.engine = "cli" THEN cut_video_plan(arg.timestamps)
              ELSE cut_video_with_progress_plan(arg.timestamps)
    /\ pc' = "returned"
    /\ UNCHANGED gui_vars
    /\ UNCHANGED <<engine_vars, fs, arg, calls>>

NextPlan == PlanSegments

SpecPlan == InitPlan /\ [][NextPlan]_vars

-----------------------------------------------------------------------------
(* Properties of the segment plan *)

\* The plan has been made: cut_video is past line 123.
Planned == pc \in {"preflight", "scale", "build", "run", "report", "done"}

\* The job has ended: by the report, or by an exception that reached the caller.
Ended == pc \in {"done", "exited"}

\* The canonical strings of the job's raw timestamps (all parse once Planned).
Canonical == {parse_timestamp(job.timestamps[k]).val : k \in 1..Len(job.timestamps)}

\* The smallest string of a set in str order.
MinStr(S) == CHOOSE c \in S : \A d \in S : ~StrLess(d, c)

\* The tokens of an argument vector.
Tokens(argv) == {argv[k] : k \in 1..Len(argv)}

\* The flag followed by the value, somewhere in the argument vector.
HasOption(argv, flag, value) ==
    \E k \in 1..(Len(argv) - 1) : argv[k] = flag /\ argv[k + 1] = value

\* C1: for every non-empty list of raw timestamps that parse_timestamp
\* accepts, the boundary list is strictly ascending (no two consecutive
\* boundaries equal or out of order), starts with "00:00:00", and the last
\* segment is built with no end time (no -to argument).
C1_BoundariesStrictlyAscending ==
    Planned =>
        /\ parsed_timestamps[1] = "00:00:00"
        /\ \A k \in 1..(Len(parsed_timestamps) - 1) :
               StrLess(parsed_timestamps[k], parsed_timestamps[k + 1])
        /\ \A k \in 1..Len(built) :
               built[k].seg = Len(parsed_timestamps) =>
                   built[k].end = None /\ "-to" \notin Tokens(built[k].cmd)

\* C2: N boundaries give exactly N segments; segment k starts at boundary k
\* and, for k < N, ends at boundary k+1, which is where the next one starts;
\* segment N has no end.  "00:00:00" is prepended exactly when the smallest
\* boundary is not "00:00:00", so the single timestamp "00:00:00" gives one
\* open-ended segment.
C2_SegmentsFollowBoundaries ==
    Planned =>
        LET N == Len(parsed_timestamps) IN
        /\ Len(built) <= N
        /\ pc \in {"report", "done"} => Len(built) = N
        /\ \A k \in 1..Len(built) :
               /\ built[k].seg = k
               /\ built[k].start = parsed_timestamps[k]
               /\ k < N => /\ built[k].end = parsed_timestamps[k + 1]
                           /\ HasOption(built[k].cmd, "-to", parsed_timestamps[k + 1])
               /\ k = N => built[k].end = None /\ "-to" \notin Tokens(built[k].cmd)
               /\ k < Len(built) => built[k].end = built[k + 1].start
        /\ \A smallest \in {MinStr(Canonical)} :
               IF smallest # "00:00:00"
               THEN /\ N = Len(job.timestamps) + 1
                    /\ parsed_timestamps[1] = "00:00:00"
                    /\ parsed_timestamps[2] = smallest
               ELSE /\ N = Len(job.timestamps)
                    /\ parsed_timestamps[1] = smallest
        /\ (Len(job.timestamps) = 1
            /\ parse_timestamp(job.timestamps[1]).val = "00:00:00") => N = 1

\* C2's case: a two-timestamp job without "00:00:00" has built its three
\* segments.
C2_Witness ==
    /\ pc = "done"
    /\ job.timestamps = <<"90", "90">>
    /\ Len(built) = 3
    /\ built[3].end = None

-----------------------------------------------------------------------------
(* Properties of the execution *)

\* The number of invocations that exited 0.
Succeeded == Cardinality({k \in 1..Len(invocations) : invocations[k].outcome = "ok"})

\* C3: once preflight has passed, every planned segment 1..N is attempted
\* exactly once, in ascending index order, whatever the outcome of earlier
\* segments.
C3_AllAttemptedOncePreflightPassed ==
    /\ \A k \in 1..Len(invocations) : invocations[k].seg = k
    /\ (probe = "ok" /\ Ended) => Len(invocations) = Len(parsed_timestamps)

\* C4 as stated: the job's final completion event reports how many segments
\* succeeded out of how many were planned, and the job never ends without it
\* once execution has started.
C4_ReportsSucceededOfPlanned ==
    /\ pc = "done" =>
           \E k \in 1..Len(events) :
               /\ events[k].kind \in {"summary", "complete"}
               /\ HasSub(events[k].text, ToString(Succeeded))
               /\ HasSub(events[k].text, ToString(Len(parsed_timestamps)))
    /\ pc = "exited" => invocations = <<>>

\* C4, amended: after the last segment has been attempted the job always
\* emits, after every segment event, one summary that gives the number of
\* segments that succeeded (and nothing about the number planned); the GUI
\* worker ends with ("complete", "success"); the job never ends without the
\* summary once a segment has been attempted.
C4_CompletionReportsSuccesses ==
    /\ pc = "done" =>
           LET summaries == {k \in 1..Len(events) : events[k].kind = "summary"}
           IN  /\ Len(invocations) = Len(parsed_timestamps)
               /\ Len(output_files) = Succeeded
               /\ Cardinality(summaries) = 1
               /\ \A k \in summaries :
                      /\ events[k].text = "Successfully created " \o ToString(Succeeded)
                                          \o " video segments:"
                      /\ \A m \in 1..Len(events) : events[m].seg # 0 => m < k
               /\ job.engine = "gui" =>
                      events[Len(events)] = Ev("complete", "complete", 0, "success")
    /\ pc = "exited" => invocations = <<>>

\* C4's case: the only segment of a one-segment job failed and the job is done.
C4_Witness ==
    /\ pc = "done"
    /\ Len(parsed_timestamps) = 1
    /\ Len(invocations) = 1
    /\ invocations[1].outcome = "failed"
    /\ output_files = <<>>

\* C5: if the permission probe fails because writing is not permitted, the job
\* terminates with a permission error before any segment is attempted: no
\* invocation, no segment built, no segment event.
C5_PermissionDeniedBeforeAnySegment ==
    probe \in {"open_denied", "remove_denied"} =>
        /\ pc \in {"raised", "exited"}
        /\ error.type = "PermissionError"
        /\ invocations = <<>>
        /\ built = <<>>
        /\ \A k \in 1..Len(events) : events[k].seg = 0

\* C5's case: a job with two planned segments has ended on the denied probe.
C5_Witness ==
    /\ pc = "exited"
    /\ probe = "open_denied"
    /\ Len(parsed_timestamps) = 2

\* W:H after "scale="
IsScaleFilter(token) ==
    /\ Len(token) > 6
    /\ SubSeq(token, 1, 6) = "scale="
    /\ LET dims == Split(SubSeq(token, 7, Len(token)), ":")
       IN  Len(dims) = 2 /\ PyInt(dims[1]).ok /\ PyInt(dims[2]).ok

\* The positions of a flag that some value follows.
FlagPositions(argv, flag) == {k \in 1..(Len(argv) - 1) : argv[k] = flag}

\* C6: the two modes are mutually exclusive and chosen only by whether a scale
\* profile is present: with none the command has -c copy and no scale filter;
\* with one it has exactly one -vf scale=W:H, the two bitrate flags and no
\* -c copy.  For the bounded and for the open-ended segment alike.
C6_ModesMutuallyExclusive ==
    \A k \in 1..Len(built) :
        LET argv == built[k].cmd
            filters == {m \in FlagPositions(argv, "-vf") : IsScaleFilter(argv[m + 1])}
        IN  IF Truthy(job.scale)
            THEN /\ Cardinality(filters) = 1
                 /\ Cardinality(FlagPositions(argv, "-vf")) = 1
                 /\ Cardinality(FlagPositions(argv, "-b:v")) = 1
                 /\ Cardinality(FlagPositions(argv, "-b:a")) = 1
                 /\ ~HasOption(argv, "-c", "copy")
            ELSE /\ HasOption(argv, "-c", "copy")
                 /\ "-vf" \notin Tokens(argv)
                 /\ \A m \in 1..Len(argv) : ~IsScaleFilter(argv[m])

\* C6's case: a bounded and an open-ended segment built with a custom profile.
C6_Witness ==
    /\ job.scale = "1280:720:1.5M"
    /\ Len(built) = 2
    /\ built[1].end # None
    /\ built[2].end = None
    /\ HasOption(built[2].cmd, "-vf", "scale=1280:720")

\* C7: every command has the input flag with the job's input path, the start
\* flag with the segment's start boundary, the overwrite flag and the
\* negative-timestamp flag, an end flag with the segment's end exactly when the
\* segment is not the last, and the segment's output path as its last argument.
C7_CommandShape ==
    \A k \in 1..Len(built) :
        LET argv == built[k].cmd
        IN  /\ argv[1] = "ffmpeg"
            /\ HasOption(argv, "-i", job.input_video)
            /\ HasOption(argv, "-ss", parsed_timestamps[k])
            /\ "-y" \in Tokens(argv)
            /\ HasOption(argv, "-avoid_negative_ts", "make_zero")
            /\ IF k < Len(parsed_timestamps)
               THEN HasOption(argv, "-to", parsed_timestamps[k + 1])
               ELSE "-to" \notin Tokens(argv)
            /\ argv[Len(argv)] = built[k].out
            /\ pc = "run" /\ k = Len(built) => argv[Len(argv)] = output_filename /\ argv = cmd

\* C7's case: the GUI engine has built a bounded scaling command and the
\* open-ended one after it.
C7_Witness ==
    /\ job.engine = "gui"
    /\ job.scale = "720P"
    /\ pc = "run"
    /\ Len(built) = 2
    /\ HasOption(built[1].cmd, "-to", "00:01:30") = FALSE
    /\ HasOption(built[1].cmd, "-to", "00:00:90")

-----------------------------------------------------------------------------
(* Properties of the namer *)

\* The largest suffix a call of the bounded runs can return.
SuffixRange == 1..(Cardinality(NamerFiles) + MaxCalls)

\* The suffix of a numbered result; 0 for the candidate itself.
SuffixOf(c) ==
    IF c.result = c.candidate THEN 0
    ELSE CHOOSE n \in SuffixRange :
             c.result = numbered(splitext(c.candidate)[1], n, splitext(c.candidate)[2])

\* C8: _create_safe_filename returns the candidate unchanged when no file
\* exists at it, otherwise {stem}_{n}{ext} for the smallest n >= 1 at which no
\* file exists; the returned path does not exist at the call, and no file that
\* existed when a segment was named is written over.
C8_SafeFilename ==
    \A k \in 1..Len(calls) :
        LET c == calls[k]
            existing == DOMAIN c.snapshot
            stem == splitext(c.candidate)[1]
            ext == splitext(c.candidate)[2]
        IN  /\ c.result \notin existing
            /\ IF c.candidate \notin existing
               THEN c.result = c.candidate
               ELSE \E n \in SuffixRange :
                        /\ c.result = numbered(stem, n, ext)
                        /\ \A m \in 1..(n - 1) : numbered(stem, m, ext) \in existing
            /\ \A q \in existing : q \in DOMAIN fs /\ fs[q] = c.snapshot[q]

\* C8's case: the candidate and its _1 existed, _2 was returned and written,
\* and the two old files are as they were.
C8_Witness ==
    /\ pc = "idle"
    /\ Len(calls) = 1
    /\ calls[1].candidate = "output_segment_1.mp4"
    /\ calls[1].result = "output_segment_1_2.mp4"
    /\ calls[1].created
    /\ fs["output_segment_1.mp4"] = "old"
    /\ fs["output_segment_1_1.mp4"] = "old"
    /\ fs["output_segment_1_2.mp4"] = "segment"

\* C9: the uniqueness check is made per call against the files as they are
\* then, those written after earlier calls included: over repeated calls for
\* one existing candidate, each followed by the creation of its result, the
\* suffixes strictly increase (1, 2, 3, ... when only the candidate existed);
\* a call for a candidate that does not exist returns it, changes nothing, and
\* returns it again when repeated.
C9_PerCallMonotoneIdempotent ==
    /\ \A j, k \in 1..Len(calls) :
           (j < k /\ calls[j].created) =>
               /\ calls[j].result \in DOMAIN calls[k].snapshot
               /\ calls[k].result # calls[j].result
               /\ (/\ calls[j].candidate = calls[k].candidate
                   /\ calls[j].candidate \in DOMAIN calls[j].snapshot)
                  => SuffixOf(calls[j]) >= 1 /\ SuffixOf(calls[k]) > SuffixOf(calls[j])
    /\ \A k \in 1..Len(calls) :
           (/\ \A j \in 1..k : calls[j].candidate = calls[1].candidate
            /\ \A j \in 1..(k - 1) : calls[j].created
            /\ calls[1].candidate \in DOMAIN calls[1].snapshot
            /\ \A n \in SuffixRange :
                   numbered(splitext(calls[1].candidate)[1], n, splitext(calls[1].candidate)[2])
                       \notin DOMAIN calls[1].snapshot)
           => SuffixOf(calls[k]) = k
    /\ pc = "named" => fs = calls[Len(calls)].snapshot
    /\ \A k \in 1..Len(calls) :
           calls[k].candidate \notin DOMAIN calls[k].snapshot =>
               /\ calls[k].result = calls[k].candidate
               /\ (k < Len(calls) /\ ~calls[k].created
                   /\ calls[k + 1].candidate = calls[k].candidate)
                  => calls[k + 1].result = calls[k].result

\* C9's case: three calls for one candidate that alone existed, each result
\* created, returned _1, _2, _3.
C9_Witness ==
    /\ Len(calls) = 3
    /\ DOMAIN calls[1].snapshot = {"v1.0/clip"}
    /\ \A k \in 1..3 : calls[k].candidate = "v1.0/clip" /\ calls[k].created
    /\ calls[1].result = "v1.0/clip_1"
    /\ calls[2].result = "v1.0/clip_2"
    /\ calls[3].result = "v1.0/clip_3"

-----------------------------------------------------------------------------
(* Properties of parse_timestamp *)

\* The fields of the call's argument, each stripped.
ArgFields == [k \in 1..Len(Split(Strip(arg), ":")) |-> Strip(Split(Strip(arg), ":")[k])]

\* An unsigned decimal field.
IsCount(field) == field # "" /\ \A k \in 1..Len(field) : IsDigit(Char(field, k))

\* The seconds a list of one to three unsigned fields stands for.
TotalSeconds(fields) ==
    IF Len(fields) = 1 THEN DigitsVal(fields[1], 0)
    ELSE IF Len(fields) = 2 THEN DigitsVal(fields[1], 0) * 60 + DigitsVal(fields[2], 0)
    ELSE DigitsVal(fields[1], 0) * 3600 + DigitsVal(fields[2], 0) * 60 + DigitsVal(fields[3], 0)

\* Zero-padded hours:minutes:seconds of a number of seconds.
HMS(total) ==
    Fmt02d(total \div 3600) \o ":" \o Fmt02d((total % 3600) \div 60) \o ":" \o Fmt02d(total % 60)

\* C10: parse_timestamp puts no upper bound on a field and returns the
\* canonical HH:MM:SS of the same total duration, overflow carried into the
\* next field: "90" and "1:30" give "00:01:30", "01:30:00" gives "01:30:00".
C10_CarriesOverflow ==
    (/\ pc = "returned"
     /\ Len(ArgFields) \in 1..3
     /\ \A k \in 1..Len(ArgFields) : IsCount(ArgFields[k]))
    => ret = Returned(HMS(TotalSeconds(ArgFields)))

\* dd:dd:dd
IsCanonicalShape(s) ==
    /\ Len(s) = 8
    /\ \A k \in {1, 2, 4, 5, 7, 8} : IsDigit(Char(s, k))
    /\ \A k \in {3, 6} : Char(s, k) = ":"

\* C11: for every raw timestamp of 1, 2 or 3 colon-separated integer fields,
\* of any magnitude, parse_timestamp returns a string of exactly the form two
\* digits, colon, two digits, colon, two digits.
C11_CanonicalShape ==
    (/\ pc = "returned"
     /\ Len(ArgFields) \in 1..3
     /\ \A k \in 1..Len(ArgFields) : IsCount(ArgFields[k]))
    => ret.ok /\ IsCanonicalShape(ret.val)

\* C12: after trimming, parse_timestamp fails with the invalid-timestamp error
\* and returns no value for every input whose number of fields is outside
\* {1, 2, 3}, or that has a field that is not a base-10 integer, or that has a
\* negative field.
C12_RejectsInvalid ==
    (/\ pc = "returned"
     /\ \/ Len(ArgFields) \notin 1..3
        \/ \E k \in 1..Len(ArgFields) : ~IsCount(ArgFields[k]))
    => ret = Raised("ValueError", "Invalid timestamp format: " \o Strip(arg))

-----------------------------------------------------------------------------
(* Properties of the plan *)

\* The fields of a raw timestamp, each stripped.
FieldsOf(raw) == [k \in 1..Len(Split(Strip(raw), ":")) |-> Strip(Split(Strip(raw), ":")[k])]

\* The seconds a raw timestamp of unsigned fields denotes.
RawSeconds(raw) == TotalSeconds(FieldsOf(raw))

\* The raw timestamps of the plan.
RawPlanned == {arg.timestamps[k] : k \in 1..Len(arg.timestamps)}

\* C13: sorting the canonical strings as strings orders the boundaries by
\* time: for accepted raw timestamps a and b, canonical(a) sorts before
\* canonical(b) exactly when a denotes fewer seconds than b, so every non-final
\* segment (of two different boundaries) starts numerically earlier than it
\* ends.
C13_StringOrderIsTimeOrder ==
    (pc = "returned" /\ ret.ok) =>
        /\ \A a, b \in RawPlanned :
               StrLess(parse_timestamp(a).val, parse_timestamp(b).val)
                   <=> RawSeconds(a) < RawSeconds(b)
        /\ \A k \in 1..(Len(ret.val) - 1) :
               ret.val[k] # ret.val[k + 1] =>
                   timestamp_to_seconds(ret.val[k]) < timestamp_to_seconds(ret.val[k + 1])

\* C14: raw timestamps that normalize to one canonical string collapse to one
\* boundary: the number of planned segments is the number of distinct
\* canonical strings, plus one if "00:00:00" is not among them, and no planned
\* segment has its start equal to its end.
C14_DuplicatesCollapse ==
    (pc = "returned" /\ ret.ok) =>
        LET canonical == {parse_timestamp(a).val : a \in RawPlanned}
        IN  /\ Len(ret.val) = Cardinality(canonical)
                              + (IF "00:00:00" \in canonical THEN 0 ELSE 1)
            /\ \A k \in 1..(Len(ret.val) - 1) : ret.val[k] # ret.val[k + 1]

-----------------------------------------------------------------------------
(* Properties of an empty plan *)

\* No side effect of preflight or of the loop has happened: the output
\* directory exists only if files of an earlier run are in it, no probe was
\* made or left behind, no command was built or run.
NoSideEffect ==
    /\ (Truthy(job.output_dir) /\ job.output_dir \in dirs) =>
           segment_base_filename(job.output_prefix, 0, job.input_video, job.output_dir)
               \in DOMAIN fs
    /\ probe = None
    /\ \A q \in DOMAIN fs : ~HasSub(q, "temp_permission_test.tmp")
    /\ built = <<>>
    /\ invocations = <<>>

\* C15: planning with an empty timestamp collection fails with the
\* no-timestamps error before any side effect (no output directory made, no
\* probe written, no transcoder run), in cut_video and in the GUI's
\* cut_video_with_progress alike.
C15_EmptyPlanFailsFirst ==
    (/\ job.timestamps = <<>>
     /\ job.input_video \in DOMAIN fs
     /\ pc \notin {"start", "planning"})
    => /\ pc \in {"raised", "exited"}
       /\ error = [type |-> "ValueError", msg |-> "At least one timestamp is required"]
       /\ NoSideEffect

-----------------------------------------------------------------------------
(* Properties of scale resolution *)

\* The spellings of each preset name among the inputs.
SpellingsOf ==
    [name \in {"720p", "480p", "360p", "240p"} |->
        CASE name = "720p" -> {"720p", "720P", " 720P "}
          [] name = "480p" -> {"480p", "480P"}
          [] name = "360p" -> {"360p", "360P"}
          [] name = "240p" -> {"240p", "240P"}]

\* The scale filter of each preset.
FilterOf ==
    [name \in {"720p", "480p", "360p", "240p"} |->
        CASE name = "720p" -> "scale=1280:720"
          [] name = "480p" -> "scale=854:480"
          [] name = "360p" -> "scale=640:360"
          [] name = "240p" -> "scale=426:240"]

\* A selector was given and resolved to a profile.
Resolved == pc = "returned" /\ Truthy(arg) /\ ret.ok

\* C16: a selector equal, ignoring letter case, to one of the four preset
\* names resolves to that preset's fixed profile, never to the custom parse or
\* to an error: 720p gives 1280x720, 480p 854x480, 360p 640x360, 240p 426x240.
C16_PresetsIgnoreCase ==
    pc = "returned" =>
        \A name \in DOMAIN SpellingsOf :
            arg \in SpellingsOf[name] =>
                /\ ret.ok
                /\ Len(ret.val) = 6
                /\ HasOption(ret.val, "-vf", FilterOf[name])
                /\ ret.val = presets(name)

\* C16's case: the upper-case spelling of 480p resolved to 854x480.
C16_Witness ==
    /\ pc = "returned"
    /\ arg = "480P"
    /\ ret.ok
    /\ HasOption(ret.val, "-vf", "scale=854:480")

\* C17 as stated: every resolved scale profile carries audio bitrate 128k,
\* custom or preset.
C17_AudioAlways128k ==
    Resolved => HasOption(ret.val, "-b:a", "128k")

\* C17, amended: every resolved profile carries exactly one audio bitrate:
\* 128k for custom profiles and for 720p, 96k for 480p, 64k for 360p and 240p.
C17_AudioBitrateByProfile ==
    Resolved =>
        /\ Cardinality(FlagPositions(ret.val, "-b:a")) = 1
        /\ HasOption(ret.val, "-b:a",
                     IF arg \in SpellingsOf["480p"] THEN "96k"
                     ELSE IF arg \in SpellingsOf["360p"] \cup SpellingsOf["240p"] THEN "64k"
                     ELSE "128k")

\* C17's case: 360p resolved with audio bitrate 64k.
C17_Witness ==
    /\ Resolved
    /\ arg = "360P"
    /\ HasOption(ret.val, "-b:a", "64k")
    /\ ~HasOption(ret.val, "-b:a", "128k")

\* The colon-separated fields of the selector as the caller gave it.
SelectorFields == Split(Strip(arg), ":")

\* C18: for a custom selector width:height:bitrate the resolved video bitrate
\* is exactly the bitrate text the caller gave, and "1M" when it is omitted.
C18_CustomBitrateVerbatim ==
    (Resolved /\ Len(SelectorFields) \in {2, 3}) =>
        HasOption(ret.val, "-b:v",
                  IF Len(SelectorFields) = 3 THEN SelectorFields[3] ELSE "1M")

\* An integer field, signed or not.
IsInteger(field) ==
    \/ IsCount(field)
    \/ Len(field) > 1 /\ Char(field, 1) \in {"+", "-"} /\ IsCount(Tail(field))

\* C19: a custom selector is accepted only when its width and height are
\* positive integers; one whose width or height is zero or negative fails
\* with the invalid-scale error and produces no scale filter.
C19_PositiveDimensions ==
    (pc = "returned" /\ Truthy(arg) /\ Len(SelectorFields) >= 2) =>
        IF /\ IsInteger(SelectorFields[1]) /\ PyInt(SelectorFields[1]).val > 0
           /\ IsInteger(SelectorFields[2]) /\ PyInt(SelectorFields[2]).val > 0
        THEN TRUE
        ELSE ~ret.ok /\ ret.type = "ValueError"

\* width:height or width:height:bitrate, with integer width and height
IsCustomShape ==
    /\ Len(SelectorFields) \in {2, 3}
    /\ IsInteger(SelectorFields[1])
    /\ IsInteger(SelectorFields[2])

\* C20: a non-empty selector that is neither a preset name nor of the shape
\* width:height or width:height:bitrate (no colon, more than three fields,
\* non-integer width or height) fails with the invalid-scale error: it is not
\* treated as no scaling and yields no profile.
C20_OtherShapesFail ==
    (/\ pc = "returned"
     /\ Truthy(arg)
     /\ arg \notin PresetSelectors
     /\ ~IsCustomShape)
    => ~ret.ok /\ ret.type = "ValueError"

-----------------------------------------------------------------------------
(* Properties of the events of a segment *)

\* The positions of the events of one kind about segment k.
EventsOf(k, kind) ==
    {m \in 1..Len(events) : events[m].seg = k /\ events[m].kind = kind}

\* The order of the events of each segment that has been started; a success
\* event carries the output path in full (full_path) or at least its file name.
SegmentEventsInOrder(full_path) ==
    /\ \A m \in 1..Len(events) : events[m].seg <= Len(built)
    /\ \A k \in 1..Len(built) :
           LET starts == EventsOf(k, "starting")
               outs == EventsOf(k, "success") \cup EventsOf(k, "failure")
           IN  /\ Cardinality(starts) = 1
               /\ \A m \in starts :
                      IF scale_args # <<>>
                      THEN HasSub(events[m].text, "caling")
                           /\ ~HasSub(events[m].text, "Fast copying")
                      ELSE HasSub(events[m].text, "Fast copying")
                           /\ ~HasSub(events[m].text, "caling")
               /\ Cardinality(outs) = IF k <= Len(invocations) THEN 1 ELSE 0
               /\ \A m \in outs :
                      /\ \A st \in starts : st < m
                      /\ \A later \in 1..Len(events) : events[later].seg > k => m < later
                      /\ IF invocations[k].outcome = "ok"
                         THEN /\ events[m].kind = "success"
                              /\ HasSub(events[m].text,
                                        IF full_path \/ job.engine = "cli"
                                        THEN " " \o built[k].out
                                        ELSE " " \o basename(built[k].out))
                         ELSE /\ events[m].kind = "failure"
                              /\ \E outcome \in RunOutcomes :
                                     /\ outcome.kind = invocations[k].outcome
                                     /\ events[m] = failure_events(job.engine, k - 1,
                                                                   built[k].out, outcome)[1]

-----------------------------------------------------------------------------
(* Properties of validation *)

\* C25: parse and validation errors are reported while the job is still
\* planning, before preflight and execution: when the scale selector or a
\* timestamp is invalid the job fails without having made the output
\* directory, written the permission probe or invoked the transcoder.
C25_ValidationBeforePreflight ==
    error.type = "ValueError" =>
        /\ pc \in {"raised", "exited"}
        /\ NoSideEffect

-----------------------------------------------------------------------------
(* Properties of the output paths of a run *)

\* {prefix}_segment_{k}.{ext}, in the output directory when there is one
BaseNameOf(k) ==
    (IF Truthy(job.output_dir) THEN job.output_dir \o "/" ELSE "")
    \o job.output_prefix \o "_segment_" \o ToString(k) \o ".mp4"

\* C27: within one run the output paths of different segments are pairwise
\* distinct, and the path of segment i is derived from the base name
\* {prefix}_segment_{i}.{ext}, i the segment's position in the boundary list:
\* a failed segment keeps its index and later segments are neither renumbered
\* nor given its name.
C27_PathsDistinctAndIndexed ==
    /\ \A j, k \in 1..Len(built) : j # k => built[j].out # built[k].out
    /\ \A k \in 1..Len(built) :
           /\ built[k].seg = k
           /\ built[k].start = parsed_timestamps[k]
           /\ built[k].base = BaseNameOf(k)
           /\ \/ built[k].out = BaseNameOf(k)
              \/ \E n \in 1..(Cardinality(built[k].existing) + 1) :
                     built[k].out = splitext(BaseNameOf(k))[1] \o "_" \o ToString(n) \o ".mp4"
    /\ \A k \in 1..Len(output_files) :
           \E m \in 1..Len(built) : output_files[k] = built[m].out

\* C27's case: the first of three segments failed and left nothing, the
\* second and third were named after their own positions.
C27_Witness ==
    /\ Len(built) = 3
    /\ Len(invocations) >= 1
    /\ invocations[1].outcome = "failed"
    /\ built[1].out \notin DOMAIN fs
    /\ built[2].out = BaseNameOf(2)
    /\ built[3].out = BaseNameOf(3)

-----------------------------------------------------------------------------
(* Properties of preflight *)

\* C28: a successful preflight leaves the contents of the probed directory as
\* they were: apart from the directory itself having been made, every file
\* that existed before the probe still exists with the same content, and the
\* probe's temporary file does not remain.
C28_PreflightLeavesContents ==
    (pc = "scale" /\ probe = "ok") =>
        /\ \A q \in DOMAIN arg : q \in DOMAIN fs /\ fs[q] = arg[q]
        /\ path_join(test_dir_of(job), "temp_permission_test.tmp") \notin DOMAIN fs
        /\ test_dir_of(job) \in dirs

-----------------------------------------------------------------------------
(* The two engines *)

\* The outputs of the invocations that exited 0, in the order of the segments.
RECURSIVE SucceededPaths(_)
SucceededPaths(k) ==
    IF k = 0 THEN <<>>
    ELSE SucceededPaths(k - 1)
         \o (IF invocations[k].outcome = "ok" THEN <<built[k].out>> ELSE <<>>)

\* C30: the command-line engine and the GUI engine are the same machine: for
\* the same input, timestamps, prefix, scale and output directory, against the
\* same files and transcoder outcomes, cut_video and cut_video_with_progress
\* both fail, or perform the same argument vectors in the same order and
\* return the same output paths, those of the segments that succeeded in
\* ascending order.  In every state of a run of either engine, the other
\* engine's planning and command building give what this run has planned and
\* built, all other steps being common to both.
C30_EnginesAgree ==
    /\ pc \notin {"start", "planning"} /\ error.type # "FileNotFoundError" =>
           LET cli == cut_video_plan(job.timestamps)
               gui == cut_video_with_progress_plan(job.timestamps)
           IN  /\ cli.ok <=> gui.ok
               /\ cli.ok => cli.val = gui.val /\ parsed_timestamps = cli.val
               /\ ~cli.ok => pc \in {"raised", "exited"} /\ invocations = <<>>
    /\ \A k \in 1..Len(built) :
           /\ built[k].cmd = cut_video_cmd(job.input_video, built[k].start, built[k].end,
                                           scale_args, built[k].out)
           /\ built[k].cmd = cut_video_with_progress_cmd(job.input_video, built[k].start,
                                                         built[k].end, scale_args,
                                                         built[k].out)
           /\ k <= Len(invocations) => invocations[k].cmd = built[k].cmd
    /\ output_files = SucceededPaths(Len(invocations))

\* C30's case: the GUI engine has run two scaled segments out of order of
\* entry, the first failed and the second succeeded.
C30_Witness ==
    /\ job.engine = "gui"
    /\ job.timestamps = <<"90", "0">>
    /\ Truthy(job.scale)
    /\ pc = "done"
    /\ Len(invocations) = 2
    /\ invocations[1].outcome = "failed"
    /\ output_files = <<built[2].out>>

-----------------------------------------------------------------------------
(* The GUI: VideoCutterGUI's handlers, its cutting threads and the queue
   between them.  The handlers run one at a time on the Tk main loop; a
   cutting thread runs beside them, one step from where it starts or waits
   for a transcoder to where it next waits or ends.
   Message boxes are not state: a handler that only shows one changes
   nothing.  The scale option stays "No scaling", the prefix "output" and
   the output directory the default, which stands as "out"; of the output
   log the model keeps whether it is empty. *)

MaxWorkers == 2

\* The threads started where progress is checked.
MaxLiveWorkers == 1

\* What the user types into the timestamp entry.
EntryTexts == {"90", "abc"}

\* How the probe and the transcoder end under the GUI.
GuiProbeOutcomes == {"ok", "open_denied"}

GuiRunOutcomes ==
    {o \in RunOutcomes : o.kind = "ok" \/ (o.kind = "failed" /\ o.stderr = "" /\ ~o.leftover)}

\* The variables of the one-job engine, unused under the GUI: a cutting
\* thread keeps its locals in its record of workers.
gui_unused == <<job, pc, parsed_timestamps, scale_args, i, base_filename,
                output_filename, cmd, output_files, error, events, built,
                invocations, probe, arg, ret, calls>>

\* VideoCutterGUI.__init__ (lines 23-48) and the buttons create_widgets makes.
InitGui ==
    /\ job = None
    /\ pc = "mainloop"
    /\ parsed_timestamps = <<>>
    /\ scale_args = <<>>
    /\ i = 0
    /\ base_filename = None
    /\ output_filename = None
    /\ cmd = <<>>
    /\ output_files = <<>>
    /\ error = NoError
    /\ events = <<>>
    /\ built = <<>>
    /\ invocations = <<>>
    /\ probe = None
    /\ arg = None
    /\ ret = None
    /\ calls = <<>>
    /\ fs = [q \in {"in.mp4"} |-> "video"]
    /\ dirs = {"."}
    /\ self_input_file = ""
    /\ self_output_dir = "out"
    /\ self_timestamps = <<>>
    /\ cut_button = "normal"
    /\ stop_button = "disabled"
    /\ progress = "stopped"
    /\ output_text = ""
    /\ results_tree = <<>>
    /\ progress_queue = <<>>
    /\ workers = <<>>
    /\ emitted = 0
    /\ handled = <<>>

\* self.progress_queue.put, item by item in order.  n is history: the number
\* of the put, counted over all senders.
Put(evs) ==
    /\ progress_queue' = progress_queue
                          \o [k \in 1..Len(evs) |->
                                 [n |-> emitted + k, type |-> evs[k].type,
                                  kind |-> evs[k].kind, seg |-> evs[k].seg,
                                  text |-> evs[k].text, files |-> evs[k].files]]
    /\ emitted' = emitted + Len(evs)

\* browse_file: the dialog returned the video (lines 468-478).
BrowseFile ==
    /\ self_input_file' = "in.mp4"
    /\ UNCHANGED <<fs, dirs, self_output_dir, self_timestamps, cut_button, stop_button,
                   progress, output_text, results_tree, progress_queue,
                   workers, emitted, handled>>
    /\ UNCHANGED gui_unused

\* add_timestamp (lines 495-513)
AddTimestamp ==
    /\ \E text \in EntryTexts :
         LET timestamp == Strip(text)
         IN  self_timestamps' =
                 IF timestamp = "" THEN self_timestamps
                 ELSE IF ~parse_timestamp(timestamp).ok THEN self_timestamps
                 ELSE IF \E k \in 1..Len(self_timestamps) : self_timestamps[k] = timestamp
                 THEN self_timestamps
                 ELSE Append(self_timestamps, timestamp)
    /\ UNCHANGED <<fs, dirs, self_input_file, self_output_dir, cut_button, stop_button,
                   progress, output_text, results_tree, progress_queue,
                   workers, emitted, handled>>
    /\ UNCHANGED gui_unused

\* remove_timestamp (lines 515-521): del self.timestamps[index]
RemoveTimestamp ==
    /\ \E index \in 1..Len(self_timestamps) :
         self_timestamps' = [k \in 1..(Len(self_timestamps) - 1) |->
                                IF k < index THEN self_timestamps[k]
                                ELSE self_timestamps[k + 1]]
    /\ UNCHANGED <<fs, dirs, self_input_file, self_output_dir, cut_button, stop_button,
                   progress, output_text, results_tree, progress_queue,
                   workers, emitted, handled>>
    /\ UNCHANGED gui_unused

\* What start_cutting and show_preview refuse (lines 532-542, 221-231).
inputs_refused ==
    \/ self_input_file = ""
    \/ self_timestamps = <<>>
    \/ self_input_file \notin DOMAIN fs

\* A cutting thread at its first line.  Two fields are history: started_with
\* is what the window held when the thread was started, and put the items the
\* thread has put on the queue.
new_thread ==
    [pc |-> "thread",
     started_with |-> [timestamps |-> self_timestamps, output_dir |-> self_output_dir],
     put |-> <<>>,
     input_video |-> None,
     output_dir |-> None,
     parsed_timestamps |-> <<>>,
     i |-> 0,
     output_filename |-> None,
     cmd |-> <<>>,
     output_files |-> <<>>,
     error |-> NoError]

\* start_cutting (lines 529-555)
start_cutting ==
    IF inputs_refused
    THEN UNCHANGED <<cut_button, stop_button, progress, output_text, workers>>
    ELSE /\ cut_button' = "disabled"
         /\ stop_button' = "normal"
         /\ progress' = "running"
         /\ output_text' = ""
         /\ workers' = Append(workers, new_thread)

\* The Cut Video button, while it is enabled (lines 145, 545).
CutVideo ==
    /\ cut_button = "normal"
    /\ start_cutting
    /\ UNCHANGED <<fs, dirs, self_input_file, self_output_dir, self_timestamps,
                   results_tree, progress_queue, emitted, handled>>
    /\ UNCHANGED gui_unused

\* The Preview button, which is never disabled, and then "Looks Good - Start
\* Cutting" in the window it opens: show_preview (lines 218-313) opens a
\* window when it refuses nothing, and the button destroys the window and
\* calls start_cutting (lines 310-311).  start_cutting checks the inputs again,
\* so a window left open for a while starts nothing a new one does not.
PreviewLooksGood ==
    /\ ~inputs_refused
    /\ start_cutting
    /\ UNCHANGED <<fs, dirs, self_input_file, self_output_dir, self_timestamps,
                   results_tree, progress_queue, emitted, handled>>
    /\ UNCHANGED gui_unused

\* stop_cutting (lines 800-807), while the Stop button is enabled.
StopCutting ==
    /\ stop_button = "normal"
    /\ Put(<<Ev("message", "stopping", 0, "Stopping...")>>)
    /\ progress' = "stopped"
    /\ cut_button' = "normal"
    /\ stop_button' = "disabled"
    /\ UNCHANGED <<fs, dirs, self_input_file, self_output_dir, self_timestamps,
                   output_text, results_tree, workers, handled>>
    /\ UNCHANGED gui_unused

\* get_nowait taking the newest item.
get_nowait_newest(q) == [item |-> q[Len(q)], rest |-> SubSeq(q, 1, Len(q) - 1)]

\* self.progress_queue.get_nowait() on a queue that is not empty (line 813)
get_nowait(q) == [item |-> Head(q), rest |-> Tail(q)]

\* One turn of check_progress_queue's loop (lines 815-828).
handle_item(ui, item) ==
    LET seen == [ui EXCEPT !.handled = Append(@, item.n)]
    IN  CASE item.type = "message" ->
                 [seen EXCEPT !.output_text = "lines"]
          [] item.type = "file_results" ->
                 [seen EXCEPT !.results_tree = item.files]
          [] item.type = "complete" ->
                 [seen EXCEPT !.progress = "stopped", !.cut_button = "normal",
                              !.stop_button = "disabled"]
          [] OTHER -> seen

RECURSIVE drain(_, _)
\* while True: ... until queue.Empty (lines 811-831)
drain(ui, q) ==
    IF q = <<>> THEN ui
    ELSE drain(handle_item(ui, get_nowait(q).item), get_nowait(q).rest)

\* check_progress_queue (lines 809-833), which reschedules itself.
CheckProgressQueue ==
    /\ LET ui == drain([cut_button |-> cut_button, stop_button |-> stop_button,
                        progress |-> progress, output_text |-> output_text,
                        results_tree |-> results_tree, handled |-> handled],
                       progress_queue)
       IN  /\ cut_button' = ui.cut_button
           /\ stop_button' = ui.stop_button
           /\ progress' = ui.progress
           /\ output_text' = ui.output_text
           /\ results_tree' = ui.results_tree
           /\ handled' = ui.handled
    /\ progress_queue' = <<>>
    /\ UNCHANGED <<fs, dirs, self_input_file, self_output_dir, self_timestamps,
                   workers, emitted>>
    /\ UNCHANGED gui_unused

\* An exception leaves the try block of thread w, which has the locals me and
\* has just put said (lines 616-618).
Raise(me, w, said, err) ==
    /\ workers' = [workers EXCEPT
                       ![w] = [me EXCEPT !.pc = "finished", !.error = err,
                                         !.put = @ \o said \o error_events("gui", err)]]
    /\ Put(said \o error_events("gui", err))

\* One iteration of cut_video_with_progress up to the start of the transcoder
\* (lines 659-724), by a thread with the locals me when the files are files:
\* the thread waiting for the transcoder, and the items it put.
next_segment(me, files) ==
    LET n == Len(me.parsed_timestamps)
        start_time == me.parsed_timestamps[me.i + 1]
        end_time == IF me.i + 1 < n THEN me.parsed_timestamps[me.i + 2] ELSE None
        base == segment_base_filename("output", me.i, me.input_video, me.output_dir)
        out == _create_safe_filename(base, files)
        argv == cut_video_with_progress_cmd(me.input_video, start_time, end_time, <<>>, out)
    IN  [thread |-> [me EXCEPT !.pc = "running", !.output_filename = out, !.cmd = argv],
         evs |-> starting_events("gui", me.i, n, start_time, end_time, <<>>, out)]

\* cut_video_thread from its first line to the start of the first transcoder
\* (lines 559-595, 623-724): the window's settings are read, the preamble is
\* put, then cut_video_with_progress plans from self.timestamps, sets up and
\* probes the output directory and builds the first segment.  An edit of the
\* list during the loop of line 624 leaves the loop with a list the user could
\* also have made before it.
ThreadEnter(w) ==
    /\ workers[w].pc = "thread"
    /\ LET dir == IF Strip(self_output_dir) # "" THEN Strip(self_output_dir) ELSE None
           me == [workers[w] EXCEPT !.input_video = self_input_file, !.output_dir = dir]
           preamble == preamble_events([input_video |-> self_input_file,
                                        timestamps |-> self_timestamps,
                                        scale |-> None,
                                        output_dir |-> dir])
           plan == cut_video_with_progress_plan(self_timestamps)
           test_dir == IF Truthy(dir) THEN dir ELSE "."
           test_file == path_join(test_dir, "temp_permission_test.tmp")
       IN  IF self_input_file \notin DOMAIN fs
           THEN /\ Raise(me, w, <<>>,
                         [type |-> "FileNotFoundError",
                          msg |-> "Input video file not found: " \o self_input_file])
                /\ UNCHANGED <<fs, dirs>>
           ELSE IF ~plan.ok
           THEN /\ Raise(me, w, preamble, [type |-> plan.type, msg |-> plan.msg])
                /\ UNCHANGED <<fs, dirs>>
           ELSE \E outcome \in GuiProbeOutcomes :
                  /\ dirs' = dirs \cup {test_dir}
                  /\ IF after_probe(outcome) = "scale"
                     THEN LET first == next_segment(
                                           [me EXCEPT !.parsed_timestamps = plan.val],
                                           DOMAIN remove_file(fs, test_file))
                          IN  /\ fs' = remove_file(fs, test_file)
                              /\ workers' = [workers EXCEPT
                                                ![w] = [first.thread EXCEPT
                                                           !.put = preamble \o first.evs]]
                              /\ Put(preamble \o first.evs)
                     ELSE /\ fs' = fs
                          /\ Raise(me, w, preamble, no_write_permission(test_dir))
    /\ UNCHANGED <<self_input_file, self_output_dir, self_timestamps, cut_button,
                   stop_button, progress, output_text, results_tree,
                   handled>>
    /\ UNCHANGED gui_unused

\* The transcoder returns: the handlers around it, then the next iteration up
\* to the start of its transcoder (lines 724-742, 659-724), or after the last
\* segment the return and the report (lines 744, 597-614).
ThreadReturn(w) ==
    /\ workers[w].pc = "running"
    /\ \E outcome \in GuiRunOutcomes :
         LET me == workers[w]
             said == IF outcome.kind = "ok"
                     THEN <<Say("gui", "success", me.i + 1,
                                "Successfully created: " \o basename(me.output_filename))>>
                     ELSE failure_events("gui", me.i, me.output_filename, outcome)
             files == IF outcome.leftover
                      THEN write_file(fs, me.output_filename,
                                      IF outcome.kind = "ok" THEN "segment" ELSE "partial")
                      ELSE fs
             after == [me EXCEPT !.i = me.i + 1,
                                 !.output_files = IF outcome.kind = "ok"
                                                  THEN Append(@, me.output_filename)
                                                  ELSE @]
             more == after_segment(outcome.kind, me.i, Len(me.parsed_timestamps)) = "build"
             evs == IF more THEN said \o next_segment(after, DOMAIN files).evs
                    ELSE said \o completion_events("gui", after.output_files)
             thread == IF more THEN next_segment(after, DOMAIN files).thread
                       ELSE [after EXCEPT !.pc = "finished"]
         IN  /\ fs' = files
             /\ workers' = [workers EXCEPT ![w] = [thread EXCEPT !.put = @ \o evs]]
             /\ Put(evs)
    /\ UNCHANGED <<dirs, self_input_file, self_output_dir, self_timestamps, cut_button,
                   stop_button, progress, output_text, results_tree,
                   handled>>
    /\ UNCHANGED gui_unused

NextGui ==
    \/ BrowseFile
    \/ AddTimestamp
    \/ RemoveTimestamp
    \/ Len(workers) < MaxWorkers /\ CutVideo
    \/ Len(workers) < MaxWorkers /\ PreviewLooksGood
    \/ StopCutting
    \/ CheckProgressQueue
    \/ \E w \in 1..Len(workers) : ThreadEnter(w)
    \/ \E w \in 1..Len(workers) : ThreadReturn(w)

SpecGui == InitGui /\ [][NextGui]_vars

\* The same with a single job.
NextGuiLive ==
    \/ BrowseFile
    \/ AddTimestamp
    \/ RemoveTimestamp
    \/ Len(workers) < MaxLiveWorkers /\ CutVideo
    \/ Len(workers) < MaxLiveWorkers /\ PreviewLooksGood
    \/ StopCutting
    \/ CheckProgressQueue
    \/ \E w \in 1..Len(workers) : ThreadEnter(w)
    \/ \E w \in 1..Len(workers) : ThreadReturn(w)

\* A step of thread w.
ThreadStep(w) ==
    /\ w \in 1..Len(workers)
    /\ (ThreadEnter(w) \/ ThreadReturn(w))

\* Thread w can take a step: it was started and has not finished.  A thread
\* at its first line always enters, and a transcoder has an outcome.
AtWork(w) == w \in 1..Len(workers) /\ workers[w].pc # "finished"

\* The GUI where a started thread gets to run and every transcoder returns:
\* WF_vars(ThreadStep(w)) for every thread, with AtWork(w) written for
\* ENABLED <<ThreadStep(w)>>_vars.
SpecGuiLive ==
    /\ InitGui
    /\ [][NextGuiLive]_vars
    /\ \A w \in 1..MaxLiveWorkers : []<>(~AtWork(w)) \/ []<><<ThreadStep(w)>>_vars

-----------------------------------------------------------------------------
(* The claims about the GUI *)

\* The threads that have not put their ("complete", ...) yet.
Alive == {w \in 1..Len(workers) : workers[w].pc # "finished"}

\* The threads waiting for a transcoder.
Transcoding == {w \in 1..Len(workers) : workers[w].pc = "running"}

\* The newest item on the queue is the Stop handler's: Stop was pressed after
\* every put of the threads.
StopIsNewest ==
    /\ progress_queue # <<>>
    /\ progress_queue[Len(progress_queue)].kind = "stopping"

\* C22: cancellation is honoured at segment boundaries: after Stop is pressed
\* while segment k is being transcoded, the invocation in flight is not
\* terminated, and no invocation for a segment after k is started.  Pressing
\* Stop leaves every thread where it is; and where the only thread waits for
\* the transcoder of segment k and nothing was put since Stop was pressed, so
\* that Stop was pressed while segment k was being transcoded, the thread's
\* next step starts no transcoder for segment k + 1.
C22_StopAtSegmentBoundary ==
    [][/\ (stop_button = "normal" /\ stop_button' = "disabled" /\ progress_queue' # <<>>)
            => workers' = workers
       /\ (Len(workers) = 1 /\ workers[1].pc = "running" /\ StopIsNewest)
            => ~(workers'[1].pc = "running" /\ workers'[1].i > workers[1].i)]_vars

\* C23: at most one transcoder invocation is in flight at any time: whatever
\* the user clicks, no second cutting thread is started while an earlier one
\* is still at work, so two threads never name and write outputs concurrently.
C23_OneWorkerAtATime ==
    /\ Cardinality(Alive) <= 1
    /\ Cardinality(Transcoding) <= 1
    /\ \A v, w \in Transcoding :
           v # w => workers[v].output_filename # workers[w].output_filename

\* The numbers of the items on the queue, oldest first.
Waiting == [k \in 1..Len(progress_queue) |-> progress_queue[k].n]

\* C24: the items put on progress_queue reach the UI first in, first out:
\* the items handled so far followed by those still on the queue are all the
\* items ever put, each once, in the order they were put, however the puts
\* and the polls interleave.
C24_QueueIsFifo ==
    /\ Len(handled \o Waiting) = emitted
    /\ \A k \in 1..emitted : (handled \o Waiting)[k] = k

\* C24's case: both the Stop handler and a thread have put items, some were
\* handled by an earlier poll and several wait while the thread is at work.
C24_Witness ==
    /\ Len(handled) > 0
    /\ Len(progress_queue) > 1
    /\ Transcoding # {}
    /\ \E k \in 1..Len(progress_queue) : progress_queue[k].kind = "stopping"
    /\ \E k \in 1..Len(progress_queue) : progress_queue[k].kind = "starting"

\* C26: a job is a fixed input value: what a running job uses is what the
\* window held when the job was started, and edits made while the thread
\* runs, such as removing timestamps, neither change nor break the job.  A
\* thread past its planning has the boundaries of the list it was started
\* with and the directory it was started with, and has raised nothing but a
\* failed permission probe.
C26_JobIsFixedAtStart ==
    \A w \in 1..Len(workers) :
        workers[w].pc # "thread" =>
            LET me == workers[w]
                plan == cut_video_with_progress_plan(me.started_with.timestamps)
            IN  /\ plan.ok
                /\ me.output_dir = me.started_with.output_dir
                /\ IF me.error.type = "PermissionError" THEN TRUE
                   ELSE me.error = NoError /\ me.parsed_timestamps = plan.val

\* The places of the ("complete", ...) items among the items thread w has put.
Completes(w) == {k \in 1..Len(workers[w].put) : workers[w].put[k].type = "complete"}

\* What thread w has put is as C29 has it: no ("complete", ...) while it is at
\* work; once it has finished exactly one, its last item, with the status
\* "error" when an exception left the thread and "success" when the loop over
\* the segments ended, whatever number of them succeeded, and then straight
\* after the file list.
CompletesOnce(w) ==
    LET me == workers[w]
        last == me.put[Len(me.put)]
    IN  IF me.pc # "finished" THEN Completes(w) = {} /\ me.error = NoError
        ELSE /\ Completes(w) = {Len(me.put)}
             /\ last.text \in {"success", "error"}
             /\ last.text = "error" <=> me.error # NoError
             /\ last.text = "success" =>
                    /\ me.i = Len(me.parsed_timestamps)
                    /\ me.i > 0
                    /\ Len(me.output_files) <= me.i
                    /\ me.put[Len(me.put) - 1].type = "file_results"
                    /\ me.put[Len(me.put) - 1].files = me.output_files
                    /\ \A k \in 1..(Len(me.put) - 2) : me.put[k].type = "message"
             /\ last.text = "error" => me.i = 0 /\ me.output_files = <<>>

\* A poll that handles a ("complete", ...) leaves Cut Video enabled and Stop
\* disabled.
CompleteResetsButtons ==
    (/\ handled' # handled
     /\ \E k \in 1..Len(progress_queue) : progress_queue[k].type = "complete")
        => cut_button' = "normal" /\ stop_button' = "disabled"

\* C29: every GUI job that is started puts, provided each transcoder returns,
\* exactly one ("complete", status) on the queue, as the last item of its
\* thread, after the segment messages and the file list; once the UI handles
\* it Cut Video is enabled and Stop disabled; the status is "error" exactly
\* when the thread raised before the loop ended and "success" otherwise, also
\* when no segment succeeded.
C29_EveryJobCompletesOnce ==
    /\ [](\A w \in 1..Len(workers) : CompletesOnce(w))
    /\ [][CompleteResetsButtons]_vars
    /\ \A w \in 1..MaxLiveWorkers :
           (Len(workers) >= w) ~> (Len(workers) >= w /\ workers[w].pc = "finished"
                                   /\ Completes(w) # {})

\* C29's case: a job has ended with "success" though both its segments
\* failed, and the UI has handled all it put.
C29_Witness ==
    /\ Len(workers) = 1
    /\ workers[1].pc = "finished"
    /\ workers[1].error = NoError
    /\ workers[1].i = 2
    /\ workers[1].output_files = <<>>
    /\ progress_queue = <<>>
    /\ Len(handled) = emitted
    /\ cut_button = "normal"
    /\ stop_button = "disabled"

====
